---- MODULE Spec2Model ----
(***************************************************************************)
(* Lab-report core: extraction of (name, value) pairs from report text     *)
(* (parser.py), resolution against the reference catalog                   *)
(* (normal_ranges.py), classification and health score (analyzer.py).      *)
(*                                                                         *)
(* Text is a TLA+ string, i.e. a sequence of characters.  Numbers that the *)
(* program holds as floats are held here as integers counting 1/Scale, and *)
(* percentages as integers counting tenths of a percent.                   *)
(*                                                                         *)
(* Specifications:                                                         *)
(*   Spec        one caller runs analyze(parse_lab_values(text))           *)
(*   SpecAnalyze one caller runs analyze(tests) on tests of any origin     *)
(*   SpecScore   _compute_health_score on matched lists of any content     *)
(*   SpecLookup  direct calls of lookup                                    *)
(*   SpecPair    two callers run the pipeline, their steps interleaved     *)
(***************************************************************************)
EXTENDS Integers, Sequences, FiniteSets, TLC

\* ------------------------------------------------------------------------
\* Bounds of the model
\* ------------------------------------------------------------------------

\* longest text, in lines, that Init builds from the line pool
MaxLines == 2

\* ------------------------------------------------------------------------
\* Characters and the character classes of the regular expressions
\* ------------------------------------------------------------------------

Ch(s, i) == SubSeq(s, i, i)

UpperLetters == "ABCDEFGHIJKLMNOPQRSTUVWXYZ"

LowerLetters == "abcdefghijklmnopqrstuvwxyz"

DigitChars == "0123456789"

CharsOf(s) == { Ch(s, i) : i \in 1..Len(s) }

UpperSet == CharsOf(UpperLetters)

LowerSet == CharsOf(LowerLetters)

\* [A-Za-z]
AlphaSet == UpperSet \cup LowerSet

\* \d
DigitSet == CharsOf(DigitChars)

IsUpper(c) == c \in UpperSet

IsAlpha(c) == c \in AlphaSet

IsDigit(c) == c \in DigitSet

\* \s
SpaceSet == {" ", "\t", "\n", "\r", "\f"}

IsSpace(c) == c \in SpaceSet

\* \w, whose complement and the string ends make \b
WordSet == AlphaSet \cup DigitSet \cup {"_"}

IsWord(c) == c \in WordSet

\* [A-Za-z0-9 /\-\(\),.:']
NameCharSet == AlphaSet \cup DigitSet \cup {" ", "/", "-", "(", ")", ",", ".", ":", "'"}

IsNameChar(c) == c \in NameCharSet

\* [:\.\-] and the en and em dash, which lie outside the ASCII alphabet of
\* the texts modelled here
SeparatorSet == {":", ".", "-"}

\* the lower case letter of every upper case letter
ToLower == [ c \in UpperSet |-> Ch(LowerLetters, CHOOSE i \in 1..26 : Ch(UpperLetters, i) = c) ]

\* the upper case letter of every lower case letter
ToUpper == [ c \in LowerSet |-> Ch(UpperLetters, CHOOSE i \in 1..26 : Ch(LowerLetters, i) = c) ]

\* str.lower() on one character
LowerCh(c) == IF c \in UpperSet THEN ToLower[c] ELSE c

RECURSIVE lower(_)
lower(s) == IF s = "" THEN "" ELSE LowerCh(Head(s)) \o lower(Tail(s))

\* str.strip()
strip(s) ==
    LET n == Len(s)
        IsBlank == \A i \in 1..n : IsSpace(Ch(s, i))
        a == CHOOSE i \in 1..n : ~IsSpace(Ch(s, i)) /\ \A k \in 1..(i-1) : IsSpace(Ch(s, k))
        b == CHOOSE i \in 1..n : ~IsSpace(Ch(s, i)) /\ \A k \in (i+1)..n : IsSpace(Ch(s, k))
    IN  IF IsBlank THEN "" ELSE SubSeq(s, a, b)

\* str.rstrip(":.- ")
RECURSIVE rstripPunct(_)
rstripPunct(s) ==
    IF s # "" /\ Ch(s, Len(s)) \in {":", ".", "-", " "}
    THEN rstripPunct(SubSeq(s, 1, Len(s) - 1))
    ELSE s

\* str.splitlines(): breaks at \n, \r, \r\n and \f; no empty last line
RECURSIVE splitlines(_)
splitlines(s) ==
    LET n == Len(s)
        IsBreak(i) == Ch(s, i) \in {"\n", "\r", "\f"}
        b == CHOOSE i \in 1..n : IsBreak(i) /\ \A k \in 1..(i-1) : ~IsBreak(k)
        after == IF Ch(s, b) = "\r" /\ b < n /\ Ch(s, b + 1) = "\n" THEN b + 2 ELSE b + 1
    IN  IF s = "" THEN << >>
        ELSE IF \A i \in 1..n : ~IsBreak(i) THEN << s >>
        ELSE << SubSeq(s, 1, b - 1) >> \o splitlines(SubSeq(s, after, n))

\* ------------------------------------------------------------------------
\* parser.py: noise filter
\* ------------------------------------------------------------------------

\* HasWordAt as it would be without re.IGNORECASE
HasWordAt_caseSensitive(s, i, w) == i + Len(w) - 1 <= Len(s) /\ SubSeq(s, i, i + Len(w) - 1) = w

\* s, case folded, has the literal w at position i
HasWordAt(s, i, w) == i + Len(w) - 1 <= Len(s) /\ lower(SubSeq(s, i, i + Len(w) - 1)) = w

\* \s at position i
SpaceAt(s, i) == i <= Len(s) /\ IsSpace(Ch(s, i))

\* first position at or after i that holds no whitespace (Len(s)+1 if none)
RECURSIVE SkipSpace(_, _)
SkipSpace(s, i) == IF i <= Len(s) /\ IsSpace(Ch(s, i)) THEN SkipSpace(s, i + 1) ELSE i

\* \b after a word character that ends at position i-1
BoundaryAt(s, i) == i > Len(s) \/ ~IsWord(Ch(s, i))

\* _NOISE_PATTERNS.search(s), with re.IGNORECASE
NoisePatternFound(s) ==
    \/ HasWordAt(s, 1, "page") /\ SpaceAt(s, 5)
    \/ HasWordAt(s, 1, "date") /\ SpaceAt(s, 5)
    \/ HasWordAt(s, 1, "sample") /\ HasWordAt(s, SkipSpace(s, 7), "id")
    \/ HasWordAt(s, 1, "patient") /\ SpaceAt(s, 8)
    \/ HasWordAt(s, 1, "referred") /\ SpaceAt(s, 9)
    \/ HasWordAt(s, 1, "age") /\ SpaceAt(s, 4)
    \/ /\ HasWordAt(s, 1, "test") /\ SpaceAt(s, 5)
       /\ HasWordAt(s, SkipSpace(s, 5), "name")
       /\ BoundaryAt(s, SkipSpace(s, 5) + 4)
    \/ HasWordAt(s, 1, "this") /\ SpaceAt(s, 5) /\ HasWordAt(s, SkipSpace(s, 5), "report")
    \/ \E i \in 1..(Len(s) - 1) : Ch(s, i) = "*" /\ Ch(s, i + 1) = "*"
    \/ HasWordAt(s, 1, "dr.") /\ SpaceAt(s, 4)
    \/ HasWordAt(s, 1, "chief") /\ SpaceAt(s, 6)

_is_noise(line) ==
    LET stripped == strip(line)
    IN  IF Len(stripped) < 4 THEN TRUE ELSE NoisePatternFound(stripped)

\* ------------------------------------------------------------------------
\* parser.py: the two extraction patterns
\* ------------------------------------------------------------------------

NoMatch == [found |-> FALSE]

\* end of the longest run of characters of the class from position i on
\* (position after the run; i itself for an empty run)
RECURSIVE RunEnd(_, _, _)
RunEnd(s, i, Class) == IF i <= Len(s) /\ Ch(s, i) \in Class THEN RunEnd(s, i + 1, Class) ELSE i

\* (?P<value>\d+(?:\.\d+)?)\b at position c: the position after the value,
\* or 0.  Greedy with backtracking: the whole number when a word boundary
\* follows it, else its integer part when a fraction was read (the "." after
\* it is a boundary), else no match: between two digits there is no boundary.
ValueEnd(s, c) ==
    LET d1 == RunEnd(s, c, DigitSet)
        hasFrac == /\ d1 + 1 <= Len(s)
                   /\ Ch(s, d1) = "."
                   /\ IsDigit(Ch(s, d1 + 1))
        d2 == RunEnd(s, d1 + 1, DigitSet)
    IN  IF c > Len(s) \/ d1 = c THEN 0
        ELSE IF hasFrac THEN (IF BoundaryAt(s, d2) THEN d2 ELSE d1)
        ELSE IF BoundaryAt(s, d1) THEN d1
        ELSE 0

\* start of the name: ^\s*[A-Za-z]; 0 when the line does not start so
NameStart(s) ==
    LET p == SkipSpace(s, 1)
    IN  IF p <= Len(s) /\ IsAlpha(Ch(s, p)) THEN p ELSE 0

\* \s*[:\.\-]*\s+ from position e, then the value: the position where the
\* value starts, or 0.  \s+ needs one whitespace right before the value: the
\* run after the separators, or, when there is no separator, the run before.
TabularValueStart(s, e) ==
    LET w1 == RunEnd(s, e, SpaceSet)
        b == RunEnd(s, w1, SeparatorSet)
        c == RunEnd(s, b, SpaceSet)
    IN  IF (c > b \/ (b = w1 /\ w1 > e)) /\ ValueEnd(s, c) # 0 THEN c ELSE 0

\* \s*:\s* from position e, then the value: where the value starts, or 0
ColonValueStart(s, e) ==
    LET w1 == RunEnd(s, e, SpaceSet)
        c == RunEnd(s, w1 + 1, SpaceSet)
    IN  IF w1 <= Len(s) /\ Ch(s, w1) = ":" /\ ValueEnd(s, c) # 0 THEN c ELSE 0

\* what follows the name in the colon pattern or in the tabular pattern
ValueStart(s, e, colon) == IF colon THEN ColonValueStart(s, e) ELSE TabularValueStart(s, e)

\* PatternMatch as it would be with a greedy name (* and + for *? and +?):
\* the longest name after which the rest matches wins
PatternMatch_greedy(s, minName, colon) ==
    LET p == NameStart(s)
        nameMax == RunEnd(s, p + 1, NameCharSet)
        RECURSIVE LastEnd(_)
        LastEnd(e) == IF e < p + minName THEN 0
                      ELSE IF ValueStart(s, e, colon) # 0 THEN e
                      ELSE LastEnd(e - 1)
        end == LastEnd(nameMax)
        c == ValueStart(s, end, colon)
    IN  IF p = 0 \/ end = 0 THEN NoMatch
        ELSE [found |-> TRUE,
              name  |-> SubSeq(s, p, end - 1),
              value |-> SubSeq(s, c, ValueEnd(s, c) - 1)]

\* the match of the colon or of the tabular pattern, whose name has at least
\* minName characters: the name is lazy, so the shortest name after which
\* the rest matches wins
PatternMatch(s, minName, colon) ==
    LET p == NameStart(s)
        nameMax == RunEnd(s, p + 1, NameCharSet)
        \* the first name end from e on after which the rest matches, or 0
        RECURSIVE FirstEnd(_)
        FirstEnd(e) == IF e > nameMax THEN 0
                       ELSE IF ValueStart(s, e, colon) # 0 THEN e
                       ELSE FirstEnd(e + 1)
        end == FirstEnd(p + minName)
        c == ValueStart(s, end, colon)
    IN  IF p = 0 \/ end = 0 THEN NoMatch
        ELSE [found |-> TRUE,
              name  |-> SubSeq(s, p, end - 1),
              value |-> SubSeq(s, c, ValueEnd(s, c) - 1)]

\* _TABULAR_PATTERN.match(line): name is [A-Za-z][...]*?
TabularMatch(line) == PatternMatch(line, 1, FALSE)

\* _COLON_PATTERN.match(line): name is [A-Za-z][...]+?
ColonMatch(line) == PatternMatch(line, 2, TRUE)

\* re.sub(r"\s+", " ", raw)
RECURSIVE CollapseSpace(_)
CollapseSpace(s) ==
    IF s = "" THEN ""
    ELSE IF IsSpace(Head(s)) THEN " " \o CollapseSpace(SubSeq(s, SkipSpace(s, 1), Len(s)))
    ELSE Head(s) \o CollapseSpace(Tail(s))

_clean_name(raw) == rstripPunct(strip(CollapseSpace(raw)))

\* ------------------------------------------------------------------------
\* Numbers
\* ------------------------------------------------------------------------

\* a float x is held as the integer x * Scale (three decimal places)
Scale == 10 * 10 * 10

DigitVal(c) == (CHOOSE i \in 1..10 : Ch(DigitChars, i) = c) - 1

RECURSIVE NatOf(_)
NatOf(s) == IF s = "" THEN 0 ELSE NatOf(SubSeq(s, 1, Len(s) - 1)) * 10 + DigitVal(Ch(s, Len(s)))

\* what float() accepts among the strings met here: digits, optionally a
\* "." and more digits
IsNumeral(s) ==
    /\ s # ""
    /\ \A i \in 1..Len(s) : IsDigit(Ch(s, i)) \/ Ch(s, i) = "."
    /\ Cardinality({ i \in 1..Len(s) : Ch(s, i) = "." }) <= 1
    /\ \E i \in 1..Len(s) : IsDigit(Ch(s, i))

\* float(value_str): the nearest number with three decimal places
float(s) ==
    LET dots == { i \in 1..Len(s) : Ch(s, i) = "." }
        dot == IF dots = {} THEN Len(s) + 1 ELSE CHOOSE i \in dots : TRUE
        ip == SubSeq(s, 1, dot - 1)
        fp == SubSeq(s, dot + 1, Len(s)) \o "0000"
    IN  NatOf(ip) * Scale + NatOf(SubSeq(fp, 1, 3)) + (IF DigitVal(Ch(fp, 4)) >= 5 THEN 1 ELSE 0)

\* The program computes in binary floating point, the model in exact
\* decimals.  The two agree except where the exact result lies half way
\* between two roundings: there the error of the float operations decides
\* (round(37.5) is 38, but 100 - 62.50000000000001 rounds to 37).  Which way
\* such a case goes is fixed for a run and unknown to the model:
\* fp.deviation is TRUE when round(deviation, 1) goes up, fp.score is TRUE
\* when round(100 - penalty) goes up.
VARIABLE fp

\* round(nm / dn), for nm >= 0 and dn > 0; up decides the half-way case
RoundNearest(nm, dn, up) ==
    LET q == nm \div dn
        r == nm % dn
    IN  IF 2 * r < dn THEN q
        ELSE IF 2 * r > dn THEN q + 1
        ELSE IF up THEN q + 1 ELSE q

\* ------------------------------------------------------------------------
\* parser.py: parse_lab_values
\* ------------------------------------------------------------------------

\* ExtractedTest(raw_name, value, line)
ExtractedTest(raw_name, value, line) == [raw_name |-> raw_name, value |-> value, line |-> line]

\* the keys of the dict seen, which is held as the sequence of its items in
\* insertion order
SeenKeys(seen) == { seen[i].key : i \in 1..Len(seen) }

\* re.fullmatch(r"[\d\s.]+", cleaned)
IsNumericName(cleaned) ==
    cleaned # "" /\ \A i \in 1..Len(cleaned) :
        IsDigit(Ch(cleaned, i)) \/ IsSpace(Ch(cleaned, i)) \/ Ch(cleaned, i) = "."

\* _add as it would be without the test on the length of the cleaned name
_add_anyLength(seen, name, value_str, line) ==
    LET cleaned == _clean_name(name)
        key == lower(cleaned)
    IN  IF cleaned = "" THEN seen
        ELSE IF IsNumericName(cleaned) THEN seen
        ELSE IF ~IsNumeral(value_str) THEN seen
        ELSE IF key \notin SeenKeys(seen)
             THEN Append(seen, [key |-> key, test |-> ExtractedTest(cleaned, float(value_str), strip(line))])
        ELSE seen

\* _add as it would be with key = cleaned, the .lower() left out
_add_caseSensitive(seen, name, value_str, line) ==
    LET cleaned == _clean_name(name)
        key == cleaned
    IN  IF cleaned = "" \/ Len(cleaned) < 2 THEN seen
        ELSE IF IsNumericName(cleaned) THEN seen
        ELSE IF ~IsNumeral(value_str) THEN seen
        ELSE IF key \notin SeenKeys(seen)
             THEN Append(seen, [key |-> key, test |-> ExtractedTest(cleaned, float(value_str), strip(line))])
        ELSE seen

\* _add(name, value_str, line): the dict seen after the call
_add(seen, name, value_str, line) ==
    LET cleaned == _clean_name(name)
        key == lower(cleaned)
    IN  IF cleaned = "" \/ Len(cleaned) < 2 THEN seen
        ELSE IF IsNumericName(cleaned) THEN seen
        ELSE IF ~IsNumeral(value_str) THEN seen
        ELSE IF key \notin SeenKeys(seen)
             THEN Append(seen, [key |-> key, test |-> ExtractedTest(cleaned, float(value_str), strip(line))])
        ELSE seen

\* ParseLine as it would be without the test for noise
ParseLine_noNoiseTest(seen, line) ==
    LET colon == ColonMatch(line)
        tabular == TabularMatch(line)
    IN  IF colon.found THEN _add(seen, colon.name, colon.value, line)
        ELSE IF tabular.found THEN _add(seen, tabular.name, tabular.value, line)
        ELSE seen

\* ParseLine as it would be if a line whose colon match adds nothing went on
\* to the tabular pattern
ParseLine_fallThrough(seen, line) ==
    LET colon == ColonMatch(line)
        tabular == TabularMatch(line)
        byColon == _add(seen, colon.name, colon.value, line)
    IN  IF _is_noise(line) THEN seen
        ELSE IF colon.found /\ byColon # seen THEN byColon
        ELSE IF tabular.found THEN _add(seen, tabular.name, tabular.value, line)
        ELSE seen

\* one iteration of the loop over text.splitlines(): the dict seen after it
ParseLine(seen, line) ==
    LET colon == ColonMatch(line)
        tabular == TabularMatch(line)
    IN  IF _is_noise(line) THEN seen
        ELSE IF colon.found THEN _add(seen, colon.name, colon.value, line)
        ELSE IF tabular.found THEN _add(seen, tabular.name, tabular.value, line)
        ELSE seen

\* SeenValues as it would be if the list were returned in reverse order
SeenValues_reversed(seen) == [i \in 1..Len(seen) |-> seen[Len(seen) + 1 - i].test]

\* list(seen.values())
SeenValues(seen) == [i \in 1..Len(seen) |-> seen[i].test]

\* ------------------------------------------------------------------------
\* normal_ranges.py: the reference catalog
\* ------------------------------------------------------------------------

\* The dict NORMAL_RANGES as the sequence of its entries in source order;
\* min_value and max_value count 1/Scale; the micro sign and the superscript
\* two of the units are written u and 2.
NORMAL_RANGES == <<
    [name |-> "hemoglobin", min_value |-> 12000, max_value |-> 17500, unit |-> "g/dL",
     aliases |-> << "hb", "hgb", "haemoglobin" >>],
    [name |-> "hematocrit", min_value |-> 36000, max_value |-> 50000, unit |-> "%",
     aliases |-> << "hct", "pcv", "packed cell volume" >>],
    [name |-> "rbc", min_value |-> 4000, max_value |-> 6000, unit |-> "million/uL",
     aliases |-> << "red blood cells", "red blood cell count", "rbc count", "erythrocytes" >>],
    [name |-> "wbc", min_value |-> 4000, max_value |-> 11000, unit |-> "thousand/uL",
     aliases |-> << "white blood cells", "white blood cell count", "wbc count", "leukocytes", "total wbc", "total leucocyte count", "tlc" >>],
    [name |-> "platelets", min_value |-> 150000, max_value |-> 400000, unit |-> "thousand/uL",
     aliases |-> << "platelet count", "plt", "thrombocytes" >>],
    [name |-> "mcv", min_value |-> 80000, max_value |-> 100000, unit |-> "fL",
     aliases |-> << "mean corpuscular volume" >>],
    [name |-> "mch", min_value |-> 27000, max_value |-> 33000, unit |-> "pg",
     aliases |-> << "mean corpuscular hemoglobin" >>],
    [name |-> "mchc", min_value |-> 32000, max_value |-> 36000, unit |-> "g/dL",
     aliases |-> << "mean corpuscular hemoglobin concentration" >>],
    [name |-> "rdw", min_value |-> 11500, max_value |-> 14500, unit |-> "%",
     aliases |-> << "red cell distribution width", "rdw-cv" >>],
    [name |-> "mpv", min_value |-> 7500, max_value |-> 11500, unit |-> "fL",
     aliases |-> << "mean platelet volume" >>],
    [name |-> "total cholesterol", min_value |-> 0, max_value |-> 200000, unit |-> "mg/dL",
     aliases |-> << "cholesterol", "cholesterol total", "tc", "serum cholesterol" >>],
    [name |-> "ldl", min_value |-> 0, max_value |-> 100000, unit |-> "mg/dL",
     aliases |-> << "ldl cholesterol", "ldl-c", "low density lipoprotein", "bad cholesterol" >>],
    [name |-> "hdl", min_value |-> 40000, max_value |-> 60000, unit |-> "mg/dL",
     aliases |-> << "hdl cholesterol", "hdl-c", "high density lipoprotein", "good cholesterol" >>],
    [name |-> "triglycerides", min_value |-> 0, max_value |-> 150000, unit |-> "mg/dL",
     aliases |-> << "tg", "trigs", "triglyceride" >>],
    [name |-> "vldl", min_value |-> 2000, max_value |-> 30000, unit |-> "mg/dL",
     aliases |-> << "vldl cholesterol", "very low density lipoprotein" >>],
    [name |-> "sgot", min_value |-> 5000, max_value |-> 40000, unit |-> "U/L",
     aliases |-> << "ast", "aspartate aminotransferase", "sgot (ast)" >>],
    [name |-> "sgpt", min_value |-> 7000, max_value |-> 56000, unit |-> "U/L",
     aliases |-> << "alt", "alanine aminotransferase", "sgpt (alt)" >>],
    [name |-> "alkaline phosphatase", min_value |-> 44000, max_value |-> 147000, unit |-> "U/L",
     aliases |-> << "alp", "alk phos", "alkp" >>],
    [name |-> "total bilirubin", min_value |-> 100, max_value |-> 1200, unit |-> "mg/dL",
     aliases |-> << "bilirubin", "bilirubin total", "t. bilirubin", "tbil" >>],
    [name |-> "direct bilirubin", min_value |-> 0, max_value |-> 300, unit |-> "mg/dL",
     aliases |-> << "conjugated bilirubin", "d. bilirubin", "dbil" >>],
    [name |-> "albumin", min_value |-> 3500, max_value |-> 5500, unit |-> "g/dL",
     aliases |-> << "serum albumin", "alb" >>],
    [name |-> "globulin", min_value |-> 2000, max_value |-> 3500, unit |-> "g/dL",
     aliases |-> << "serum globulin" >>],
    [name |-> "total protein", min_value |-> 6000, max_value |-> 8300, unit |-> "g/dL",
     aliases |-> << "protein total", "tp", "serum protein" >>],
    [name |-> "ag ratio", min_value |-> 1000, max_value |-> 2500, unit |-> "",
     aliases |-> << "albumin/globulin ratio", "a/g ratio", "a:g ratio" >>],
    [name |-> "ggt", min_value |-> 0, max_value |-> 45000, unit |-> "U/L",
     aliases |-> << "gamma gt", "gamma-glutamyl transferase", "ggtp" >>],
    [name |-> "creatinine", min_value |-> 600, max_value |-> 1200, unit |-> "mg/dL",
     aliases |-> << "serum creatinine", "creat", "s. creatinine" >>],
    [name |-> "bun", min_value |-> 7000, max_value |-> 20000, unit |-> "mg/dL",
     aliases |-> << "blood urea nitrogen", "urea nitrogen" >>],
    [name |-> "urea", min_value |-> 15000, max_value |-> 45000, unit |-> "mg/dL",
     aliases |-> << "blood urea", "serum urea" >>],
    [name |-> "uric acid", min_value |-> 3000, max_value |-> 7000, unit |-> "mg/dL",
     aliases |-> << "serum uric acid", "urate" >>],
    [name |-> "egfr", min_value |-> 90000, max_value |-> 120000, unit |-> "mL/min/1.73m2",
     aliases |-> << "estimated gfr", "glomerular filtration rate", "estimated glomerular filtration rate" >>],
    [name |-> "fasting glucose", min_value |-> 70000, max_value |-> 100000, unit |-> "mg/dL",
     aliases |-> << "fasting blood sugar", "fbs", "glucose fasting", "fasting plasma glucose", "fpg", "blood sugar fasting" >>],
    [name |-> "random glucose", min_value |-> 70000, max_value |-> 140000, unit |-> "mg/dL",
     aliases |-> << "random blood sugar", "rbs", "glucose random", "blood sugar random" >>],
    [name |-> "hba1c", min_value |-> 4000, max_value |-> 5600, unit |-> "%",
     aliases |-> << "glycated hemoglobin", "glycosylated hemoglobin", "a1c", "hemoglobin a1c", "hb a1c" >>],
    [name |-> "pp glucose", min_value |-> 70000, max_value |-> 140000, unit |-> "mg/dL",
     aliases |-> << "postprandial glucose", "post prandial blood sugar", "ppbs", "glucose pp" >>],
    [name |-> "tsh", min_value |-> 400, max_value |-> 4000, unit |-> "mIU/L",
     aliases |-> << "thyroid stimulating hormone", "thyrotropin" >>],
    [name |-> "t3", min_value |-> 80000, max_value |-> 200000, unit |-> "ng/dL",
     aliases |-> << "triiodothyronine", "total t3", "serum t3" >>],
    [name |-> "t4", min_value |-> 5000, max_value |-> 12000, unit |-> "ug/dL",
     aliases |-> << "thyroxine", "total t4", "serum t4" >>],
    [name |-> "free t3", min_value |-> 2300, max_value |-> 4200, unit |-> "pg/mL",
     aliases |-> << "ft3" >>],
    [name |-> "free t4", min_value |-> 800, max_value |-> 1800, unit |-> "ng/dL",
     aliases |-> << "ft4", "free thyroxine" >>],
    [name |-> "sodium", min_value |-> 136000, max_value |-> 145000, unit |-> "mEq/L",
     aliases |-> << "na", "na+", "serum sodium" >>],
    [name |-> "potassium", min_value |-> 3500, max_value |-> 5000, unit |-> "mEq/L",
     aliases |-> << "k", "k+", "serum potassium" >>],
    [name |-> "chloride", min_value |-> 98000, max_value |-> 106000, unit |-> "mEq/L",
     aliases |-> << "cl", "cl-", "serum chloride" >>],
    [name |-> "calcium", min_value |-> 8500, max_value |-> 10500, unit |-> "mg/dL",
     aliases |-> << "ca", "serum calcium", "total calcium" >>],
    [name |-> "phosphorus", min_value |-> 2500, max_value |-> 4500, unit |-> "mg/dL",
     aliases |-> << "phosphate", "serum phosphorus", "po4" >>],
    [name |-> "magnesium", min_value |-> 1700, max_value |-> 2200, unit |-> "mg/dL",
     aliases |-> << "mg", "serum magnesium" >>],
    [name |-> "iron", min_value |-> 60000, max_value |-> 170000, unit |-> "ug/dL",
     aliases |-> << "serum iron", "fe" >>],
    [name |-> "ferritin", min_value |-> 12000, max_value |-> 300000, unit |-> "ng/mL",
     aliases |-> << "serum ferritin" >>],
    [name |-> "tibc", min_value |-> 250000, max_value |-> 370000, unit |-> "ug/dL",
     aliases |-> << "total iron binding capacity" >>],
    [name |-> "vitamin d", min_value |-> 30000, max_value |-> 100000, unit |-> "ng/mL",
     aliases |-> << "25-hydroxy vitamin d", "25(oh)d", "vit d", "vitamin d3" >>],
    [name |-> "vitamin b12", min_value |-> 200000, max_value |-> 900000, unit |-> "pg/mL",
     aliases |-> << "b12", "cobalamin", "vit b12" >>],
    [name |-> "folate", min_value |-> 2700, max_value |-> 17000, unit |-> "ng/mL",
     aliases |-> << "folic acid", "serum folate", "vitamin b9" >>],
    [name |-> "esr", min_value |-> 0, max_value |-> 20000, unit |-> "mm/hr",
     aliases |-> << "erythrocyte sedimentation rate", "sed rate" >>],
    [name |-> "crp", min_value |-> 0, max_value |-> 3000, unit |-> "mg/L",
     aliases |-> << "c-reactive protein", "c reactive protein", "hs-crp" >>],
    [name |-> "psa", min_value |-> 0, max_value |-> 4000, unit |-> "ng/mL",
     aliases |-> << "prostate specific antigen" >>]
>>

\* the keys of NORMAL_RANGES
RangeKeys == { NORMAL_RANGES[i].name : i \in 1..Len(NORMAL_RANGES) }

\* NORMAL_RANGES[canonical] as ReferenceRange: in a dict literal the last
\* entry of a key is the one kept
RangeOf(canonical) ==
    LET RECURSIVE LastFrom(_)
        LastFrom(n) == IF NORMAL_RANGES[n].name = canonical THEN n ELSE LastFrom(n - 1)
        i == LastFrom(Len(NORMAL_RANGES))
    IN  [min_value |-> NORMAL_RANGES[i].min_value,
         max_value |-> NORMAL_RANGES[i].max_value,
         unit      |-> NORMAL_RANGES[i].unit,
         aliases   |-> NORMAL_RANGES[i].aliases]

\* AssignsKey as it would be under partial matching: a key is served by
\* every entry whose name or alias it starts with
AssignsKey_prefix(n, key) ==
    \/ /\ Len(key) >= Len(NORMAL_RANGES[n].name)
       /\ SubSeq(key, 1, Len(NORMAL_RANGES[n].name)) = NORMAL_RANGES[n].name
    \/ \E j \in 1..Len(NORMAL_RANGES[n].aliases) :
           /\ Len(key) >= Len(NORMAL_RANGES[n].aliases[j])
           /\ SubSeq(key, 1, Len(NORMAL_RANGES[n].aliases[j])) = lower(NORMAL_RANGES[n].aliases[j])

\* _build_alias_map(): entry n assigns alias_map[key] = canonical for its
\* own name and for each of its aliases in lower case
AssignsKey(n, key) ==
    \/ NORMAL_RANGES[n].name = key
    \/ \E j \in 1..Len(NORMAL_RANGES[n].aliases) :
           /\ Len(NORMAL_RANGES[n].aliases[j]) = Len(key)
           /\ lower(NORMAL_RANGES[n].aliases[j]) = key

\* the keys of _ALIAS_MAP from entry n on
RECURSIVE AliasKeysFrom(_)
AliasKeysFrom(n) ==
    IF n > Len(NORMAL_RANGES) THEN {}
    ELSE {NORMAL_RANGES[n].name}
         \cup { lower(NORMAL_RANGES[n].aliases[j]) : j \in 1..Len(NORMAL_RANGES[n].aliases) }
         \cup AliasKeysFrom(n + 1)

AliasKeys == AliasKeysFrom(1)

\* _ALIAS_MAP.get(key): a later assignment to a key replaces an earlier one,
\* so the last entry that assigns the key decides; None when none does
_ALIAS_MAP_get(key) ==
    LET RECURSIVE LastFrom(_)
        LastFrom(n) == IF n = 0 THEN 0
                       ELSE IF AssignsKey(n, key) THEN n
                       ELSE LastFrom(n - 1)
        last == LastFrom(Len(NORMAL_RANGES))
    IN  IF last = 0 THEN "" ELSE NORMAL_RANGES[last].name

\* what a call returns or raises
Raise(error) == [raised |-> error]

Raised(r) == "raised" \in DOMAIN r

None == [none |-> TRUE]

\* no call made yet
Pending == [pending |-> TRUE]

\* what a call returned, when the value is a string or a list
Returned(value) == [returned |-> value]

\* lookup as it would be if it returned the key it was asked for in place of
\* the canonical name
lookup_returnsKey(test_name) ==
    LET key == lower(strip(test_name))
        canonical == _ALIAS_MAP_get(key)
    IN  IF canonical = "" THEN None
        ELSE IF canonical \notin RangeKeys THEN Raise("KeyError")
        ELSE [canonical_name |-> key, ref |-> RangeOf(canonical)]

\* lookup(test_name)
lookup(test_name) ==
    LET key == lower(strip(test_name))
        canonical == _ALIAS_MAP_get(key)
    IN  IF canonical = "" THEN None
        ELSE IF canonical \notin RangeKeys THEN Raise("KeyError")
        ELSE [canonical_name |-> canonical, ref |-> RangeOf(canonical)]

\* ------------------------------------------------------------------------
\* analyzer.py: classification
\* ------------------------------------------------------------------------

\* DeviationPct as it would be without "* 100": the fraction, not the percentage
DeviationPct_fraction(diff, span) ==
    IF span > 0 THEN RoundNearest(diff * 10, span, fp.deviation)
    ELSE 0 - RoundNearest(diff * 10, 0 - span, fp.deviation)

\* round(diff / span * 100, 1), counted in tenths of a percent, span # 0
DeviationPct(diff, span) ==
    IF span > 0 THEN RoundNearest(diff * 1000, span, fp.deviation)
    ELSE 0 - RoundNearest(diff * 1000, 0 - span, fp.deviation)

\* SpanOf as it would be without the guard against a zero boundary
SpanOf_unguarded(boundary) == boundary

\* span = boundary if boundary != 0 else 1.0
SpanOf(boundary) == IF boundary # 0 THEN boundary ELSE Scale

Abs(x) == IF x < 0 THEN 0 - x ELSE x

\* _classify as it would be if the deviation were taken relative to the
\* width of the range, max_value - min_value, not to the boundary crossed
_classify_overWidth(value, ref) ==
    IF value < ref.min_value
    THEN LET span == SpanOf(ref.max_value - ref.min_value)
         IN  IF span = 0 THEN Raise("ZeroDivisionError")
             ELSE [status |-> "Low",
                   deviation |-> DeviationPct(Abs(ref.min_value - value), span)]
    ELSE IF value > ref.max_value
    THEN LET span == SpanOf(ref.max_value - ref.min_value)
         IN  IF span = 0 THEN Raise("ZeroDivisionError")
             ELSE [status |-> "High",
                   deviation |-> DeviationPct(Abs(value - ref.max_value), span)]
    ELSE [status |-> "Normal", deviation |-> 0]

\* _classify as it would be with exclusive bounds (<= and >= for < and >)
_classify_exclusive(value, ref) ==
    IF value <= ref.min_value
    THEN LET span == SpanOf(ref.min_value)
         IN  IF span = 0 THEN Raise("ZeroDivisionError")
             ELSE [status |-> "Low",
                   deviation |-> DeviationPct(Abs(ref.min_value - value), span)]
    ELSE IF value >= ref.max_value
    THEN LET span == SpanOf(ref.max_value)
         IN  IF span = 0 THEN Raise("ZeroDivisionError")
             ELSE [status |-> "High",
                   deviation |-> DeviationPct(Abs(value - ref.max_value), span)]
    ELSE [status |-> "Normal", deviation |-> 0]

\* _classify(value, ref): (status, deviation), or what it raises
_classify(value, ref) ==
    IF value < ref.min_value
    THEN LET span == SpanOf(ref.min_value)
         IN  IF span = 0 THEN Raise("ZeroDivisionError")
             ELSE [status |-> "Low",
                   deviation |-> DeviationPct(Abs(ref.min_value - value), span)]
    ELSE IF value > ref.max_value
    THEN LET span == SpanOf(ref.max_value)
         IN  IF span = 0 THEN Raise("ZeroDivisionError")
             ELSE [status |-> "High",
                   deviation |-> DeviationPct(Abs(value - ref.max_value), span)]
    ELSE [status |-> "Normal", deviation |-> 0]

\* _severity_level as it would be without the early return for Normal
_severity_level_noEarlyReturn(status, deviation_pct) ==
    IF status = "High"
    THEN IF deviation_pct <= 100 THEN "Mild"
         ELSE IF deviation_pct <= 300 THEN "Moderate"
         ELSE "Critical"
    ELSE IF deviation_pct <= 100 THEN "Mild"
    ELSE IF deviation_pct <= 250 THEN "Moderate"
    ELSE "Critical"

\* _severity_level as it would be with the tiers of High used for Low too
_severity_level_sameTiers(status, deviation_pct) ==
    IF status = "Normal" THEN "Normal"
    ELSE IF deviation_pct <= 100 THEN "Mild"
    ELSE IF deviation_pct <= 300 THEN "Moderate"
    ELSE "Critical"

\* _severity_level(status, deviation_pct), deviation_pct in tenths of a percent
_severity_level(status, deviation_pct) ==
    IF status = "Normal" THEN "Normal"
    ELSE IF status = "High"
    THEN IF deviation_pct <= 100 THEN "Mild"
         ELSE IF deviation_pct <= 300 THEN "Moderate"
         ELSE "Critical"
    ELSE IF deviation_pct <= 100 THEN "Mild"
    ELSE IF deviation_pct <= 250 THEN "Moderate"
    ELSE "Critical"

\* str.upper() on one character
UpperCh(c) == IF c \in LowerSet THEN ToUpper[c] ELSE c

\* str.title(): a letter is upper case after a non-letter, else lower case
title(s) ==
    LET cased(i) == IF i = 1 \/ ~IsAlpha(Ch(s, i - 1)) THEN UpperCh(Ch(s, i)) ELSE LowerCh(Ch(s, i))
        RECURSIVE from(_)
        from(i) == IF i > Len(s) THEN "" ELSE cased(i) \o from(i + 1)
    IN  from(1)

\* _explain(test): the parts its sentence is formatted from
_explain(test) ==
    IF test.status = "Normal"
    THEN << title(test.canonical_name), "within", test.min_value, test.max_value, test.unit >>
    ELSE << title(test.canonical_name), test.value, test.unit,
            IF test.status = "Low" THEN "below" ELSE "above",
            test.min_value, test.max_value, test.severity, test.deviation_pct,
            IF test.status = "Low" THEN test.min_value ELSE test.max_value >>

\* ------------------------------------------------------------------------
\* Exact arithmetic beyond 32 bits: a natural number as the sequence of its
\* digits in base Limb, least significant first
\* ------------------------------------------------------------------------

Limb == 100 * 100

RECURSIVE BigOf(_)
BigOf(n) == IF n < Limb THEN << n >> ELSE << n % Limb >> \o BigOf(n \div Limb)

\* x * k + carry, for k and carry below 200000
RECURSIVE BigTimesPlus(_, _, _)
BigTimesPlus(x, k, carry) ==
    IF x = << >> THEN (IF carry = 0 THEN << >> ELSE BigOf(carry))
    ELSE LET v == Head(x) * k + carry
         IN  << v % Limb >> \o BigTimesPlus(Tail(x), k, v \div Limb)

BigTimes(x, k) == BigTimesPlus(x, k, 0)

RECURSIVE BigPlusCarry(_, _, _)
BigPlusCarry(x, y, carry) ==
    IF x = << >> /\ y = << >> THEN (IF carry = 0 THEN << >> ELSE << carry >>)
    ELSE LET a == IF x = << >> THEN 0 ELSE Head(x)
             b == IF y = << >> THEN 0 ELSE Head(y)
             v == a + b + carry
         IN  << v % Limb >> \o BigPlusCarry(IF x = << >> THEN x ELSE Tail(x),
                                            IF y = << >> THEN y ELSE Tail(y),
                                            v \div Limb)

BigPlus(x, y) == BigPlusCarry(x, y, 0)

\* digit i of x, 0 beyond its length
BigDigit(x, i) == IF i <= Len(x) THEN x[i] ELSE 0

\* x < y
BigLess(x, y) ==
    LET n == IF Len(x) > Len(y) THEN Len(x) ELSE Len(y)
    IN  \E i \in 1..n :
            /\ BigDigit(x, i) < BigDigit(y, i)
            /\ \A j \in (i+1)..n : BigDigit(x, j) = BigDigit(y, j)

\* x = y as numbers
BigEqual(x, y) == ~BigLess(x, y) /\ ~BigLess(y, x)

\* ------------------------------------------------------------------------
\* analyzer.py: health score
\* ------------------------------------------------------------------------

Min(a, b) == IF a < b THEN a ELSE b

Max(a, b) == IF a > b THEN a ELSE b

\* RawDeviation as it would be without the cap at 100 %
RawDeviation_uncapped(t) == t.deviation_pct

\* raw = min(t.deviation_pct, 100.0), in tenths of a percent
RawDeviation(t) == Min(t.deviation_pct, 1000)

\* the product of raw + 20 (in tenths: raw + 200) over the tests of ts,
\* the one at index skip left out
RECURSIVE DenominatorProduct(_, _, _)
DenominatorProduct(ts, i, skip) ==
    IF i > Len(ts) THEN BigOf(1)
    ELSE IF i = skip THEN DenominatorProduct(ts, i + 1, skip)
    ELSE BigTimes(DenominatorProduct(ts, i + 1, skip), RawDeviation(ts[i]) + 200)

\* the sum over the tests of ts, from index i on, of 100 * raw / (raw + 20),
\* as the numerator over the common denominator DenominatorProduct(ts, 1, 0)
RECURSIVE PenaltyNumerator(_, _)
PenaltyNumerator(ts, i) ==
    IF i > Len(ts) THEN BigOf(0)
    ELSE BigPlus(BigTimes(DenominatorProduct(ts, 1, i), 100 * RawDeviation(ts[i])),
                 PenaltyNumerator(ts, i + 1))

\* round(100 - pn / pd): the integer nearest to 100 - pn/pd; up decides when
\* 100 - pn/pd is half way between two integers, or so close to it (within
\* one millionth) that the error of the float operations reaches the half.
\* pn / pd lies within one unit above estimate / 1000, which leaves three
\* candidates at or above 0; none of them fits when the result is negative.
RoundedScore(pn, pd, estimate, up) ==
    LET top == 100 - (estimate \div 1000)
        Million(x) == BigTimes(BigTimes(x, Limb), 100)
        slack == BigTimes(pd, 2)
        \* 100 - k - 1/2 - 1/million <= pn/pd <= 100 - k + 1/2 + 1/million
        Nearest(k) ==
            /\ \/ k >= 100
               \/ ~BigLess(BigPlus(Million(BigTimes(pn, 2)), slack),
                           Million(BigTimes(pd, 199 - 2 * k)))
            /\ ~BigLess(BigPlus(Million(BigTimes(pd, 201 - 2 * k)), slack),
                        Million(BigTimes(pn, 2)))
        cands == { k \in Max(0, top - 2)..top : Nearest(k) }
    IN  IF cands = {} THEN 0 - 1
        ELSE IF up THEN CHOOSE k \in cands : \A j \in cands : j <= k
        ELSE CHOOSE k \in cands : \A j \in cands : k <= j

IsAbnormal(t) == t.status # "Normal"

\* _compute_health_score(tests) divides by zero: raw + 20 is zero for a test
ScoreRaises(tests) ==
    \E i \in 1..Len(tests) : IsAbnormal(tests[i]) /\ RawDeviation(tests[i]) + 200 = 0

\* PenalisedScore as it would be with 20 / (raw + 20) for raw / (raw + 20)
PenalisedScore_inverted(tests) ==
    LET total_tests == Len(tests)
        abnormal == SelectSeq(tests, IsAbnormal)
        RECURSIVE Numerator(_)
        Numerator(i) ==
            IF i > Len(abnormal) THEN BigOf(0)
            ELSE BigPlus(BigTimes(DenominatorProduct(abnormal, 1, i), 100 * 200),
                         Numerator(i + 1))
        pd == BigTimes(DenominatorProduct(abnormal, 1, 0), total_tests)
        RECURSIVE Estimate(_)
        Estimate(i) ==
            IF i > Len(abnormal) THEN 0
            ELSE (100000 * 200) \div (total_tests * (RawDeviation(abnormal[i]) + 200))
                 + Estimate(i + 1)
    IN  Max(0, RoundedScore(Numerator(1), pd, Estimate(1), fp.score))

\* PenalisedScore as it would be with max_penalty_per_test = 100, the
\* division by total_tests left out
PenalisedScore_undivided(tests) ==
    LET abnormal == SelectSeq(tests, IsAbnormal)
        pn == PenaltyNumerator(abnormal, 1)
        pd == DenominatorProduct(abnormal, 1, 0)
        RECURSIVE Estimate(_)
        Estimate(i) ==
            IF i > Len(abnormal) THEN 0
            ELSE (100000 * RawDeviation(abnormal[i])) \div (RawDeviation(abnormal[i]) + 200)
                 + Estimate(i + 1)
    IN  Max(0, RoundedScore(pn, pd, Estimate(1), fp.score))

\* _compute_health_score(tests) for a non-empty list, when it does not
\* raise: max(0, round(100 - penalty))
PenalisedScore(tests) ==
    LET total_tests == Len(tests)
        abnormal == SelectSeq(tests, IsAbnormal)
        \* penalty = pn / pd, every test_penalty being
        \* (100 / total_tests) * (raw / (raw + 20))
        pn == PenaltyNumerator(abnormal, 1)
        pd == BigTimes(DenominatorProduct(abnormal, 1, 0), total_tests)
        RECURSIVE Estimate(_)
        Estimate(i) ==
            IF i > Len(abnormal) THEN 0
            ELSE (100000 * RawDeviation(abnormal[i]))
                     \div (total_tests * (RawDeviation(abnormal[i]) + 200))
                 + Estimate(i + 1)
    IN  Max(0, RoundedScore(pn, pd, Estimate(1), fp.score))

\* _compute_health_score as it would be with int(100 - penalty) for
\* round(100 - penalty): the rounded score less one when it lies above
\* 100 - penalty
_compute_health_score_truncated(tests) ==
    LET abnormal == SelectSeq(tests, IsAbnormal)
        pn == PenaltyNumerator(abnormal, 1)
        pd == BigTimes(DenominatorProduct(abnormal, 1, 0), Len(tests))
        rounded == PenalisedScore(tests)
    IN  IF tests = << >> THEN 100
        ELSE IF BigLess(BigTimes(pd, 100), BigPlus(pn, BigTimes(pd, rounded)))
        THEN Max(0, rounded - 1)
        ELSE rounded

\* _compute_health_score as it would be if the empty list scored 0
_compute_health_score_emptyZero(tests) ==
    IF tests = << >> THEN 0 ELSE PenalisedScore(tests)

\* _compute_health_score(tests), when it does not raise
_compute_health_score(tests) ==
    IF tests = << >> THEN 100 ELSE PenalisedScore(tests)

\* ------------------------------------------------------------------------
\* analyzer.py: analyze
\* ------------------------------------------------------------------------

\* AnalysisReport(): the field defaults
AnalysisReport == [matched |-> << >>, unrecognized |-> << >>, health_score |-> 100]

\* AnalyzedTest(...) as analyze builds it, explanation included
AnalyzedTest(canonical_name, ext, ref, status, deviation, sev) ==
    LET analyzed == [canonical_name |-> canonical_name,
                     raw_name       |-> ext.raw_name,
                     value          |-> ext.value,
                     min_value      |-> ref.min_value,
                     max_value      |-> ref.max_value,
                     unit           |-> ref.unit,
                     status         |-> status,
                     deviation_pct  |-> deviation,
                     severity       |-> sev]
    IN  [ f \in DOMAIN analyzed \cup {"explanation"} |->
            IF f = "explanation" THEN _explain(analyzed) ELSE analyzed[f] ]

\* AnalyzeTest as it would be if a test were skipped when report.matched
\* already holds one of the same canonical name
AnalyzeTest_oncePerCanonical(report, ext) ==
    LET result == lookup(ext.raw_name)
        classified == _classify(ext.value, result.ref)
        sev == _severity_level(classified.status, classified.deviation)
    IN  IF Raised(result) THEN result
        ELSE IF result = None
        THEN [report EXCEPT !.unrecognized = Append(@, ext)]
        ELSE IF Raised(classified) THEN classified
        ELSE IF \E i \in 1..Len(report.matched) :
                    report.matched[i].canonical_name = result.canonical_name
        THEN report
        ELSE [report EXCEPT !.matched =
                 Append(@, AnalyzedTest(result.canonical_name, ext, result.ref,
                                        classified.status, classified.deviation, sev))]

\* AnalyzeTest as it would be if a test of unknown name were skipped, not
\* appended to report.unrecognized
AnalyzeTest_dropsUnknown(report, ext) ==
    LET result == lookup(ext.raw_name)
        classified == _classify(ext.value, result.ref)
        sev == _severity_level(classified.status, classified.deviation)
    IN  IF Raised(result) THEN result
        ELSE IF result = None
        THEN report
        ELSE IF Raised(classified) THEN classified
        ELSE [report EXCEPT !.matched =
                 Append(@, AnalyzedTest(result.canonical_name, ext, result.ref,
                                        classified.status, classified.deviation, sev))]

\* one iteration of the loop of analyze over tests: the report after it, or
\* what the iteration raises
AnalyzeTest(report, ext) ==
    LET result == lookup(ext.raw_name)
        classified == _classify(ext.value, result.ref)
        sev == _severity_level(classified.status, classified.deviation)
    IN  IF Raised(result) THEN result
        ELSE IF result = None
        THEN [report EXCEPT !.unrecognized = Append(@, ext)]
        ELSE IF Raised(classified) THEN classified
        ELSE [report EXCEPT !.matched =
                 Append(@, AnalyzedTest(result.canonical_name, ext, result.ref,
                                        classified.status, classified.deviation, sev))]

\* ------------------------------------------------------------------------
\* ai_summary.py and app.py: the consumers of a report.  What they return is
\* kept as data: a piece of advice is the pair of the rule it quotes, a table
\* row is the record of its cells
\* ------------------------------------------------------------------------

\* the (test, direction) pairs _DIET_RULES has advice for
_DIET_RULES == {
    << "hemoglobin", "High" >>, << "hemoglobin", "Low" >>,
    << "total cholesterol", "High" >>, << "ldl", "High" >>, << "hdl", "Low" >>,
    << "triglycerides", "High" >>,
    << "fasting glucose", "High" >>, << "fasting glucose", "Low" >>,
    << "hba1c", "High" >>, << "creatinine", "High" >>, << "uric acid", "High" >>,
    << "tsh", "High" >>, << "tsh", "Low" >>,
    << "vitamin d", "Low" >>, << "vitamin b12", "Low" >>,
    << "iron", "High" >>, << "iron", "Low" >>,
    << "ferritin", "High" >>, << "ferritin", "Low" >>,
    << "sgpt", "High" >>, << "sgot", "High" >>,
    << "calcium", "High" >>, << "calcium", "Low" >>,
    << "potassium", "High" >>, << "potassium", "Low" >>,
    << "sodium", "High" >>, << "sodium", "Low" >>
}

\* the (test, direction) pairs _LIFESTYLE_RULES has advice for
_LIFESTYLE_RULES == {
    << "hemoglobin", "Low" >>,
    << "total cholesterol", "High" >>, << "ldl", "High" >>, << "hdl", "Low" >>,
    << "triglycerides", "High" >>,
    << "fasting glucose", "High" >>, << "fasting glucose", "Low" >>,
    << "hba1c", "High" >>, << "creatinine", "High" >>, << "uric acid", "High" >>,
    << "tsh", "High" >>, << "tsh", "Low" >>,
    << "vitamin d", "Low" >>, << "esr", "High" >>, << "crp", "High" >>,
    << "sgpt", "High" >>, << "sgot", "High" >>
}

\* [t for t in report.matched if t.status != Status.NORMAL]: a new list
Abnormal(matched) == SelectSeq(matched, LAMBDA t : t.status # "Normal")

\* the advice of a rule table for the abnormal tests, in their order: the
\* tests the table has a rule for, each with the direction of the rule
Suggestions(rules, abnormal) ==
    LET advised == SelectSeq(abnormal, LAMBDA t : << t.canonical_name, t.status >> \in rules)
    IN  [i \in 1..Len(advised) |-> << title(advised[i].canonical_name), advised[i].status >>]

\* _build_prompt(report): one line per matched test, and the health score
_build_prompt(report) ==
    [tests |-> [i \in 1..Len(report.matched) |->
                   LET t == report.matched[i]
                   IN  [name |-> title(t.canonical_name), value |-> t.value,
                        unit |-> t.unit, min_value |-> t.min_value,
                        max_value |-> t.max_value,
                        flag |-> IF t.status # "Normal" THEN t.status ELSE "Normal"]],
     health_score |-> report.health_score]

\* _rule_based_summary(report)
_rule_based_summary(report) ==
    LET abnormal == Abnormal(report.matched)
    IN  [overview |->
            IF abnormal = << >> THEN [attention |-> << >>]
            ELSE [recognized |-> Len(report.matched),
                  attention |-> [i \in 1..Len(abnormal) |->
                                    << title(abnormal[i].canonical_name), abnormal[i].status >>],
                  health_score |-> report.health_score],
         diet_suggestions |-> Suggestions(_DIET_RULES, abnormal),
         lifestyle_recommendations |-> Suggestions(_LIFESTYLE_RULES, abnormal),
         generated_by |-> "rule-based"]

\* w in s
Contains(s, w) ==
    \E i \in 1..(Len(s) - Len(w) + 1) : SubSeq(s, i, i + Len(w) - 1) = w

\* re.split(r"\n(?=#{1,3}\s)", text): the text is cut at every line feed
\* that one to three # and a space follow; the line feed is dropped
HeadingAt(s, i) ==
    \E n \in 1..3 :
        /\ i + n <= Len(s)
        /\ \A k \in 0..(n - 1) : Ch(s, i + k) = "#"
        /\ IsSpace(Ch(s, i + n))

RECURSIVE SplitHeadings(_, _)
SplitHeadings(s, from) ==
    LET cuts == { i \in from..Len(s) : Ch(s, i) = "\n" /\ HeadingAt(s, i + 1) }
        cut == CHOOSE i \in cuts : \A j \in cuts : i <= j
    IN  IF cuts = {} THEN << SubSeq(s, from, Len(s)) >>
        ELSE << SubSeq(s, from, cut - 1) >> \o SplitHeadings(s, cut + 1)

\* the section _split_ai_response files a part under, "" if none
SectionOf(part) ==
    LET low == lower(part)
        start == SubSeq(low, 1, Min(60, Len(low)))
    IN  IF Contains(low, "overview") \/ Contains(low, "summary") \/ Contains(start, "health")
        THEN "overview"
        ELSE IF Contains(low, "diet") \/ Contains(low, "nutrition") \/ Contains(low, "food")
        THEN "diet"
        ELSE IF Contains(low, "lifestyle") \/ Contains(low, "exercise")
                \/ Contains(low, "recommendation")
        THEN "lifestyle"
        ELSE ""

\* _split_ai_response(text): the first part of each section, stripped; the
\* whole text as the overview if no part was filed
_split_ai_response(text) ==
    LET parts == SplitHeadings(text, 1)
        filed == { SectionOf(parts[i]) : i \in 1..Len(parts) } \ {""}
        first(k) == CHOOSE i \in 1..Len(parts) :
                        /\ SectionOf(parts[i]) = k
                        /\ \A j \in 1..(i - 1) : SectionOf(parts[j]) # k
    IN  IF filed = {} THEN [k \in {"overview"} |-> strip(text)]
        ELSE [k \in filed |-> strip(parts[first(k)])]

\* what _call_openai returned is used: neither None nor the empty string
Answered(raw) == raw # None /\ raw.content # ""

\* generate_summary(report, api_key) when the API call, if one is made,
\* returns raw
generate_summary(report, api_key, raw) ==
    IF api_key # "" /\ Answered(raw)
    THEN LET sections == _split_ai_response(raw.content)
             get(k, default) == IF k \in DOMAIN sections THEN sections[k] ELSE default
         IN  [overview |-> get("overview", raw.content),
              diet_suggestions |-> get("diet", "See overview for details."),
              lifestyle_recommendations |-> get("lifestyle", "See overview for details."),
              generated_by |-> "openai"]
    ELSE _rule_based_summary(report)

\* _build_health_guidance_prompt(abnormal_tests, health_score)
_build_health_guidance_prompt(abnormal_tests, health_score) ==
    [tests |-> [i \in 1..Len(abnormal_tests) |->
                   LET t == abnormal_tests[i]
                   IN  [name |-> title(t.canonical_name), value |-> t.value,
                        unit |-> t.unit, min_value |-> t.min_value,
                        max_value |-> t.max_value, flag |-> t.status]],
     health_score |-> health_score]

\* _rule_based_health_guidance(abnormal_tests, health_score); the score is
\* not used
_rule_based_health_guidance(abnormal_tests, health_score) ==
    [generated_by |-> "rule-based",
     explanation |-> [i \in 1..Len(abnormal_tests) |->
                        LET t == abnormal_tests[i]
                        IN  [name |-> title(t.canonical_name),
                             direction |-> IF t.status = "Low" THEN "low" ELSE "high",
                             value |-> t.value, min_value |-> t.min_value,
                             max_value |-> t.max_value, unit |-> t.unit]],
     diet |-> [i \in 1..Len(Suggestions(_DIET_RULES, abnormal_tests)) |->
                  Suggestions(_DIET_RULES, abnormal_tests)[i][1]],
     lifestyle |-> [i \in 1..Len(Suggestions(_LIFESTYLE_RULES, abnormal_tests)) |->
                       Suggestions(_LIFESTYLE_RULES, abnormal_tests)[i][1]]]

\* generate_health_guidance(report, api_key) when the API call, if one is
\* made, returns raw
generate_health_guidance(report, api_key, raw) ==
    LET abnormal == Abnormal(report.matched)
    IN  IF abnormal = << >> THEN [generated_by |-> "all clear"]
        ELSE IF api_key # "" /\ Answered(raw)
        THEN [generated_by |-> "openai", text |-> raw.content]
        ELSE _rule_based_health_guidance(abnormal, report.health_score)

\* sorted(tests, key=lambda x: (x.status != Status.HIGH, x.status != Status.LOW)):
\* a new list, High before Low before the rest, the sort being stable
sorted_tests(tests) ==
    SelectSeq(tests, LAMBDA t : t.status = "High")
    \o SelectSeq(tests, LAMBDA t : t.status = "Low")
    \o SelectSeq(tests, LAMBDA t : t.status \notin {"High", "Low"})

\* _render_results_table(tests): the rows of the table it draws, none when
\* it reports that there are no tests
_render_results_table(tests) ==
    LET shownTests == sorted_tests(tests)
    IN  [i \in 1..Len(shownTests) |->
            LET t == shownTests[i]
            IN  [test |-> title(t.canonical_name), value |-> t.value, unit |-> t.unit,
                 min_value |-> t.min_value, max_value |-> t.max_value,
                 status |-> t.status, severity |-> t.severity,
                 row_cls |-> IF t.status # "Normal"
                             THEN "row-" \o (IF t.status = "High" THEN "high" ELSE "low")
                                  \o "-" \o lower(t.severity)
                             ELSE ""]]

\* _RISK_CATEGORIES, in the order of the dict (the icons left out)
_RISK_CATEGORIES == <<
    [category |-> "Cardiovascular",
     tests |-> {"total cholesterol", "ldl", "hdl", "triglycerides", "vldl"}],
    [category |-> "Metabolic / Diabetes",
     tests |-> {"fasting glucose", "random glucose", "hba1c", "pp glucose"}],
    [category |-> "Kidney",
     tests |-> {"creatinine", "bun", "urea", "uric acid", "egfr"}],
    [category |-> "Liver",
     tests |-> {"sgot", "sgpt", "alkaline phosphatase", "total bilirubin",
                "direct bilirubin", "albumin", "globulin", "total protein",
                "ag ratio", "ggt"}],
    [category |-> "Thyroid",
     tests |-> {"tsh", "t3", "t4", "free t3", "free t4"}],
    [category |-> "Bone & Minerals",
     tests |-> {"vitamin d", "calcium", "phosphorus", "magnesium"}],
    [category |-> "Blood (CBC)",
     tests |-> {"hemoglobin", "hematocrit", "rbc", "wbc", "platelets",
                "mcv", "mch", "mchc", "rdw", "mpv"}],
    [category |-> "Iron & Vitamins",
     tests |-> {"iron", "ferritin", "tibc", "vitamin b12", "folate"}],
    [category |-> "Electrolytes",
     tests |-> {"sodium", "potassium", "chloride"}],
    [category |-> "Inflammation",
     tests |-> {"esr", "crp"}]
>>

\* the risk level of a category with abnormal of total tests out of range:
\* the ratio against 0, 0.4 and 0.7
RiskLevel(abnormal, total) ==
    IF abnormal = 0 THEN "normal"
    ELSE IF 10 * abnormal < 4 * total THEN "low"
    ELSE IF 10 * abnormal < 7 * total THEN "moderate"
    ELSE "high"

\* the entry of _categorize_risks for one category, given its tests
RiskEntry(cat, matched) ==
    [category |-> cat.category,
     risk_level |-> RiskLevel(Len(Abnormal(matched)), Len(matched)),
     abnormal |-> Len(Abnormal(matched)),
     total |-> Len(matched),
     test_details |-> [i \in 1..Len(matched) |->
                          [name |-> title(matched[i].canonical_name),
                           value |-> matched[i].value, unit |-> matched[i].unit,
                           status |-> matched[i].status,
                           severity |-> matched[i].severity]]]

\* _categorize_risks(tests): the categories that have a test, sorted high
\* risk first, the sort being stable
RECURSIVE RiskEntriesFrom(_, _)
RiskEntriesFrom(n, tests) ==
    IF n > Len(_RISK_CATEGORIES) THEN << >>
    ELSE LET cat == _RISK_CATEGORIES[n]
             matched == SelectSeq(tests, LAMBDA t : t.canonical_name \in cat.tests)
         IN  (IF matched = << >> THEN << >> ELSE << RiskEntry(cat, matched) >>)
             \o RiskEntriesFrom(n + 1, tests)

_categorize_risks(tests) ==
    LET results == RiskEntriesFrom(1, tests)
    IN  SelectSeq(results, LAMBDA r : r.risk_level = "high")
        \o SelectSeq(results, LAMBDA r : r.risk_level = "moderate")
        \o SelectSeq(results, LAMBDA r : r.risk_level = "low")
        \o SelectSeq(results, LAMBDA r : r.risk_level = "normal")

\* nothing returned yet by any consumer
NothingShown ==
    [summary |-> Pending, guidance |-> Pending, table |-> Pending, risks |-> Pending]

\* a call of a generator: the key it was given, the prompt it sent and the
\* reply it got if it called the API, and what it returned
Generated(api_key, prompt, raw, returned) ==
    [api_key |-> api_key,
     prompt |-> IF api_key # "" THEN prompt ELSE Pending,
     reply |-> IF api_key # "" THEN raw ELSE Pending,
     returned |-> returned]

\* ------------------------------------------------------------------------
\* The pipeline parse_lab_values(text) then analyze(tests), one call per
\* caller, as a state machine
\* ------------------------------------------------------------------------

\* the callers
Calls == {"A", "B"}

VARIABLES
    pc,        \* pc[c]: where call c stands
    text,      \* text[c]: the argument of parse_lab_values
    lines,     \* lines[c]: text.splitlines()
    cursor,    \* cursor[c]: index of the next line, then of the next test
    seen,      \* seen[c]: the local dict of parse_lab_values, in insertion order
    tests,     \* tests[c]: the list returned by parse_lab_values, argument of analyze
    report,    \* report[c]: the AnalysisReport under construction, then returned
    raised,    \* raised[c]: the exception that ended call c, "" if none
    query,     \* the argument of a direct lookup call
    answer,    \* what that lookup call returned
    shown,     \* shown[c]: the last call of each consumer of report[c]
    uploaded   \* uploaded[c]: the PDF file given to the application, None if none

vars == << pc, text, lines, cursor, seen, tests, report, raised, query, answer, fp, shown, uploaded >>

\* StartParse as it would be if seen were one dict of the module, not rebuilt
\* per call: the call starts from what the other caller has put in
StartParse_sharedSeen(c) ==
    /\ pc[c] = "start"
    /\ lines' = [lines EXCEPT ![c] = splitlines(text[c])]
    /\ seen' = [seen EXCEPT ![c] = seen[CHOOSE d \in Calls : d # c]]
    /\ cursor' = [cursor EXCEPT ![c] = 1]
    /\ pc' = [pc EXCEPT ![c] = "parse"]
    /\ UNCHANGED << text, tests, report, raised, query, answer, fp, shown, uploaded >>

\* parse_lab_values, entry: seen = {} and the split of the text
StartParse(c) ==
    /\ pc[c] = "start"
    /\ lines' = [lines EXCEPT ![c] = splitlines(text[c])]
    /\ seen' = [seen EXCEPT ![c] = << >>]
    /\ cursor' = [cursor EXCEPT ![c] = 1]
    /\ pc' = [pc EXCEPT ![c] = "parse"]
    /\ UNCHANGED << text, tests, report, raised, query, answer, fp, shown, uploaded >>

\* parse_lab_values, one line of the loop
ParseStep(c) ==
    /\ pc[c] = "parse"
    /\ cursor[c] <= Len(lines[c])
    /\ seen' = [seen EXCEPT ![c] = ParseLine(@, lines[c][cursor[c]])]
    /\ cursor' = [cursor EXCEPT ![c] = @ + 1]
    /\ UNCHANGED << pc, text, lines, tests, report, raised, query, answer, fp, shown, uploaded >>

\* parse_lab_values, after the loop: results = list(seen.values())
FinishParse(c) ==
    /\ pc[c] = "parse"
    /\ cursor[c] > Len(lines[c])
    /\ tests' = [tests EXCEPT ![c] = SeenValues(seen[c])]
    /\ pc' = [pc EXCEPT ![c] = "parsed"]
    /\ UNCHANGED << text, lines, cursor, seen, report, raised, query, answer, fp, shown, uploaded >>

\* StartAnalyze as it would be if the report were not built anew but started
\* from the one the other caller holds
StartAnalyze_sharedReport(c) ==
    /\ pc[c] = "parsed"
    /\ report' = [report EXCEPT ![c] = report[CHOOSE d \in Calls : d # c]]
    /\ cursor' = [cursor EXCEPT ![c] = 1]
    /\ pc' = [pc EXCEPT ![c] = "analyze"]
    /\ UNCHANGED << text, lines, seen, tests, raised, query, answer, fp, shown, uploaded >>

\* analyze, entry: report = AnalysisReport()
StartAnalyze(c) ==
    /\ pc[c] = "parsed"
    /\ report' = [report EXCEPT ![c] = AnalysisReport]
    /\ cursor' = [cursor EXCEPT ![c] = 1]
    /\ pc' = [pc EXCEPT ![c] = "analyze"]
    /\ UNCHANGED << text, lines, seen, tests, raised, query, answer, fp, shown, uploaded >>

\* analyze, one test of the loop
AnalyzeStep(c) ==
    /\ pc[c] = "analyze"
    /\ cursor[c] <= Len(tests[c])
    /\ LET r == AnalyzeTest(report[c], tests[c][cursor[c]])
       IN  IF Raised(r)
           THEN /\ raised' = [raised EXCEPT ![c] = r.raised]
                /\ pc' = [pc EXCEPT ![c] = "raised"]
                /\ UNCHANGED << report, cursor >>
           ELSE /\ report' = [report EXCEPT ![c] = r]
                /\ cursor' = [cursor EXCEPT ![c] = @ + 1]
                /\ UNCHANGED << pc, raised >>
    /\ UNCHANGED << text, lines, seen, tests, query, answer, fp, shown, uploaded >>

\* Score as it would be if the unrecognized tests were counted among the
\* tests the penalty is spread over
Score_countsUnrecognized(c) ==
    /\ pc[c] = "analyze"
    /\ cursor[c] > Len(tests[c])
    /\ LET counted == report[c].matched
                      \o [i \in 1..Len(report[c].unrecognized) |->
                             [status |-> "Normal", deviation_pct |-> 0]]
       IN  /\ report' = [report EXCEPT ![c].health_score = _compute_health_score(counted)]
           /\ pc' = [pc EXCEPT ![c] = "done"]
           /\ UNCHANGED raised
    /\ UNCHANGED << text, lines, cursor, seen, tests, query, answer, fp, shown, uploaded >>

\* analyze, after the loop: the health score, and the return
Score(c) ==
    /\ pc[c] = "analyze"
    /\ cursor[c] > Len(tests[c])
    /\ IF ScoreRaises(report[c].matched)
       THEN /\ raised' = [raised EXCEPT ![c] = "ZeroDivisionError"]
            /\ pc' = [pc EXCEPT ![c] = "raised"]
            /\ UNCHANGED report
       ELSE /\ report' = [report EXCEPT ![c].health_score =
                              _compute_health_score(report[c].matched)]
            /\ pc' = [pc EXCEPT ![c] = "done"]
            /\ UNCHANGED raised
    /\ UNCHANGED << text, lines, cursor, seen, tests, query, answer, fp, shown, uploaded >>

\* a direct call lookup(name), the first of the run
Lookup(name) ==
    /\ answer = Pending
    /\ query' = name
    /\ answer' = lookup(name)
    /\ UNCHANGED << pc, text, lines, cursor, seen, tests, report, raised, fp, shown, uploaded >>

\* generate_summary(report, api_key); raw is what _call_openai returns if it
\* is called: the content of the reply, or None when the call failed
GenerateSummary(c, api_key, raw) ==
    /\ pc[c] = "done"
    /\ shown' = [shown EXCEPT ![c].summary =
                    Generated(api_key, _build_prompt(report[c]), raw,
                              generate_summary(report[c], api_key, raw))]
    /\ UNCHANGED << pc, text, lines, cursor, seen, tests, report, raised, query, answer, fp, uploaded >>

\* generate_health_guidance(report, api_key); raw as above.  No prompt is
\* built when no value is abnormal
GenerateHealthGuidance(c, api_key, raw) ==
    /\ pc[c] = "done"
    /\ LET abnormal == Abnormal(report[c].matched)
           key == IF abnormal = << >> THEN "" ELSE api_key
       IN  shown' = [shown EXCEPT ![c].guidance =
                        Generated(key,
                                  _build_health_guidance_prompt(abnormal, report[c].health_score),
                                  raw, generate_health_guidance(report[c], api_key, raw))]
    /\ UNCHANGED << pc, text, lines, cursor, seen, tests, report, raised, query, answer, fp, uploaded >>

\* RenderResultsTable as it would be if it sorted the list it is given in
\* place, tests.sort(key=...), the list being report.matched itself
RenderResultsTable_inPlace(c) ==
    /\ pc[c] = "done"
    /\ report' = [report EXCEPT ![c].matched = sorted_tests(@)]
    /\ shown' = [shown EXCEPT ![c].table = Returned(_render_results_table(report[c].matched))]
    /\ UNCHANGED << pc, text, lines, cursor, seen, tests, raised, query, answer, fp, uploaded >>

\* app.py: _render_results_table(report.matched)
RenderResultsTable(c) ==
    /\ pc[c] = "done"
    /\ shown' = [shown EXCEPT ![c].table = Returned(_render_results_table(report[c].matched))]
    /\ UNCHANGED << pc, text, lines, cursor, seen, tests, report, raised, query, answer, fp, uploaded >>

\* app.py: _categorize_risks(report.matched)
CategorizeRisks(c) ==
    /\ pc[c] = "done"
    /\ shown' = [shown EXCEPT ![c].risks = Returned(_categorize_risks(report[c].matched))]
    /\ UNCHANGED << pc, text, lines, cursor, seen, tests, report, raised, query, answer, fp, uploaded >>

\* ------------------------------------------------------------------------
\* Inputs
\* ------------------------------------------------------------------------

\* Report lines: noise, both layouts, aliases, repeated names, values glued
\* to a unit or followed by further numbers.  Only "Free T4 0.47" has a
\* deviation half way between two roundings (41.25 %).
LinePool == {
    "Test Names 42",
    "AGE 45 years",
    "Sodium 120 **",
    "Hemoglobin 11.2 g/dL 12.0 - 17.5",
    "HEMOGLOBIN: 13.5",
    "Hb 18.9",
    "Hemoglobin 11.2g/dL",
    "Hemoglobin 11.2 g/dL (Ref: 12.0 - 17.5)",
    "  Serum   Sodium \t 129  ",
    "Fasting glucose 100.04",
    "XYZ-Marker 42",
    "Free T4 0.47"
}

\* the lines of ls joined by line feeds
RECURSIVE JoinLines(_)
JoinLines(ls) ==
    IF ls = << >> THEN ""
    ELSE IF Len(ls) = 1 THEN ls[1]
    ELSE ls[1] \o "\n" \o JoinLines(Tail(ls))

\* all sequences over S of length at most n
SeqsUpTo(S, n) == UNION { [1..k -> S] : k \in 0..n }

\* whole reports: other line breaks, lines that match no pattern, more lines
\* than MaxLines
ScenarioTexts == {
    "Page 1/2\nPatient Name: John Doe\nHemoglobin 11.2 g/dL 12.0 - 17.5",
    "Complete Blood Count\nK 4.2\nSodium : 141\nCRP 5.0",
    "Fasting Glucose 118 mg/dL 70 - 100\nGlucose Fasting 160",
    "Sodium : 141\r\nPotassium : 4.2\n",
    "Sodium : 141\nPotassium : 4.2",
    "Hemoglobin 12.0\nSodium 145",
    "Fasting Glucose 118 mg/dL 70 - 100",
    "Sodium : 141\nXYZ-Marker 42\nHb 18.9\nABC 7\nsodium 150",
    "Test Name Result Unit\rT3 1.2\fHb 11.2\n\nHB 13\nhb: 14",
    "A :5.x 7\nK : 4.2\nK 4.2",
    "Hb 11.2\nResults pending\nAge 45\n\nSodium : 141\n12/05/2024\nhb 9",
    "CRP 0\nHemoglobin 0 g/dL\nSodium -5\nPotassium - 0.5"
}

Texts == { JoinLines(ls) : ls \in SeqsUpTo(LinePool, MaxLines) } \cup ScenarioTexts

FpChoices == [deviation : BOOLEAN, score : BOOLEAN]

\* a call that is not running
Idle ==
    /\ lines = [c \in Calls |-> << >>]
    /\ cursor = [c \in Calls |-> 0]
    /\ seen = [c \in Calls |-> << >>]
    /\ tests = [c \in Calls |-> << >>]
    /\ report = [c \in Calls |-> AnalysisReport]
    /\ raised = [c \in Calls |-> ""]
    /\ query = ""
    /\ answer = Pending
    /\ shown = [c \in Calls |-> NothingShown]
    /\ uploaded = [c \in Calls |-> None]

\* ------------------------------------------------------------------------
\* Spec: one caller runs analyze(parse_lab_values(text))
\* ------------------------------------------------------------------------

Init ==
    /\ Idle
    /\ fp \in FpChoices
    /\ \E t \in Texts : text = [c \in Calls |-> IF c = "A" THEN t ELSE ""]
    /\ pc = [c \in Calls |-> IF c = "A" THEN "start" ELSE "idle"]

Next ==
    \E c \in Calls :
        \/ StartParse(c)
        \/ ParseStep(c)
        \/ FinishParse(c)
        \/ StartAnalyze(c)
        \/ AnalyzeStep(c)
        \/ Score(c)

Spec == Init /\ [][Next]_vars

\* ------------------------------------------------------------------------
\* SpecParse: one caller runs parse_lab_values(text) and nothing after it
\* ------------------------------------------------------------------------

\* no float is rounded while a text is parsed
InitParse ==
    /\ Idle
    /\ fp = [deviation |-> FALSE, score |-> FALSE]
    /\ \E t \in Texts : text = [c \in Calls |-> IF c = "A" THEN t ELSE ""]
    /\ pc = [c \in Calls |-> IF c = "A" THEN "start" ELSE "idle"]

NextParse ==
    \E c \in Calls :
        \/ StartParse(c)
        \/ ParseStep(c)
        \/ FinishParse(c)

SpecParse == InitParse /\ [][NextParse]_vars

\* ------------------------------------------------------------------------
\* SpecAnalyze: one caller runs analyze(tests) on tests of any origin
\* ------------------------------------------------------------------------

\* longest list of tests, beyond the one-test lists, passed to analyze
MaxTests == 2

\* distances of a value from a range boundary, in 1/Scale
Offsets == {1, 40, 700, 5000}

\* values inside, on and on either side of the boundaries of a range; some
\* are negative, which no parsed value is
ValuesAround(ref) ==
    {ref.min_value, ref.max_value, (ref.min_value + ref.max_value) \div 2}
    \cup { ref.min_value - o : o \in Offsets }
    \cup { ref.max_value + o : o \in Offsets }
    \cup { 3 * ref.max_value }

\* every canonical name with the values around its range
SingleTests ==
    UNION { { << ExtractedTest(k, v, "") >> : v \in ValuesAround(RangeOf(k)) } : k \in RangeKeys }

\* tests for the longer lists: names in several spellings, unknown names;
\* of their deviations only that of " hdl\t" (1.5 %) comes from rounding a
\* half-way case (1.55 %)
TestPool == {
    ExtractedTest("Hb", 11200, "Hb 11.2"),
    ExtractedTest("HEMOGLOBIN", 13500, "HEMOGLOBIN: 13.5"),
    ExtractedTest(" hdl\t", 60930, "hdl 60.93"),
    ExtractedTest("c-reactive protein", 0 - 500, ""),
    ExtractedTest("Triglycerides", 310000, "Triglycerides 310"),
    ExtractedTest("XYZ-Marker", 42000, "XYZ-Marker 42"),
    ExtractedTest("Fasting glucose", 100040, "Fasting glucose 100.04"),
    ExtractedTest("Hemoglobin 11.2 g/dL (Ref", 12000, "Hemoglobin 11.2 g/dL (Ref: 12.0 - 17.5)")
}

\* values whose deviations lie on and next to the thresholds of the severity
\* tiers: 10.0, 10.1, 25.0, 25.1, 27.5, 30.0 and 30.1 % above the maximum
\* of fasting glucose (100) and below the minimum of mcv (80)
TierTests == {
    ExtractedTest("Fasting Glucose", 110000, ""),
    ExtractedTest("Fasting Glucose", 110100, ""),
    ExtractedTest("Fasting Glucose", 125000, ""),
    ExtractedTest("Fasting Glucose", 125100, ""),
    ExtractedTest("Fasting Glucose", 127500, ""),
    ExtractedTest("Fasting Glucose", 130000, ""),
    ExtractedTest("Fasting Glucose", 130100, ""),
    ExtractedTest("MCV", 72000, ""),
    ExtractedTest("MCV", 71920, ""),
    ExtractedTest("MCV", 60000, ""),
    ExtractedTest("MCV", 59920, ""),
    ExtractedTest("MCV", 58000, ""),
    ExtractedTest("MCV", 56000, ""),
    ExtractedTest("MCV", 55920, "")
}

TestLists == SingleTests \cup { << t >> : t \in TierTests } \cup SeqsUpTo(TestPool, MaxTests)

InitAnalyze ==
    /\ fp \in FpChoices
    /\ text = [c \in Calls |-> ""]
    /\ lines = [c \in Calls |-> << >>]
    /\ cursor = [c \in Calls |-> 0]
    /\ seen = [c \in Calls |-> << >>]
    /\ \E ts \in TestLists : tests = [c \in Calls |-> IF c = "A" THEN ts ELSE << >>]
    /\ report = [c \in Calls |-> AnalysisReport]
    /\ raised = [c \in Calls |-> ""]
    /\ query = ""
    /\ answer = Pending
    /\ shown = [c \in Calls |-> NothingShown]
    /\ uploaded = [c \in Calls |-> None]
    /\ pc = [c \in Calls |-> IF c = "A" THEN "parsed" ELSE "idle"]

NextAnalyze ==
    \E c \in Calls :
        \/ StartAnalyze(c)
        \/ AnalyzeStep(c)
        \/ Score(c)

SpecAnalyze == InitAnalyze /\ [][NextAnalyze]_vars

\* ------------------------------------------------------------------------
\* SpecScore: _compute_health_score on matched lists of any content
\* ------------------------------------------------------------------------

\* longest matched list
MaxMatched == 3

\* an AnalyzedTest of the given status and deviation (tenths of a percent)
Stub(status, deviation) ==
    AnalyzedTest("hemoglobin", ExtractedTest("Hb", 0, ""), RangeOf("hemoglobin"),
                 status, deviation, _severity_level(status, deviation))

MatchedPool ==
    { Stub(st, d) : st \in {"Low", "High"}, d \in {1, 180, 600, 1000, 2500} }
    \cup { Stub("Normal", 0), Stub("High", 0) }

InitScore ==
    /\ fp \in { f \in FpChoices : ~f.deviation }
    /\ text = [c \in Calls |-> ""]
    /\ lines = [c \in Calls |-> << >>]
    /\ seen = [c \in Calls |-> << >>]
    /\ tests = [c \in Calls |-> << >>]
    /\ cursor = [c \in Calls |-> 1]
    /\ \E ms \in SeqsUpTo(MatchedPool, MaxMatched) :
           report = [c \in Calls |-> IF c = "A" THEN [AnalysisReport EXCEPT !.matched = ms]
                                      ELSE AnalysisReport]
    /\ raised = [c \in Calls |-> ""]
    /\ query = ""
    /\ answer = Pending
    /\ shown = [c \in Calls |-> NothingShown]
    /\ uploaded = [c \in Calls |-> None]
    /\ pc = [c \in Calls |-> IF c = "A" THEN "analyze" ELSE "idle"]

NextScore == \E c \in Calls : Score(c)

SpecScore == InitScore /\ [][NextScore]_vars

\* ------------------------------------------------------------------------
\* SpecLookup: direct calls of lookup
\* ------------------------------------------------------------------------

\* str.upper()
RECURSIVE upper(_)
upper(s) == IF s = "" THEN "" ELSE UpperCh(Head(s)) \o upper(Tail(s))

\* every alias as the catalog spells it
RECURSIVE AliasesFrom(_)
AliasesFrom(n) ==
    IF n > Len(NORMAL_RANGES) THEN {}
    ELSE { NORMAL_RANGES[n].aliases[j] : j \in 1..Len(NORMAL_RANGES[n].aliases) }
         \cup AliasesFrom(n + 1)

CatalogNames == RangeKeys \cup AliasesFrom(1)

\* the names in other case and with surrounding whitespace, and spellings
\* that are no names: cut short, with a word more, with a space doubled
LookupInputs ==
    CatalogNames
    \cup { upper(n) : n \in CatalogNames }
    \cup { "  " \o n \o "\t" : n \in CatalogNames }
    \cup { SubSeq(n, 1, Len(n) - 1) : n \in CatalogNames }
    \cup { n \o " level" : n \in CatalogNames }
    \cup { "serum  sodium", "xyz-marker", "", "   " }

InitLookup ==
    /\ Idle
    /\ fp = [deviation |-> FALSE, score |-> FALSE]
    /\ text = [c \in Calls |-> ""]
    /\ pc = [c \in Calls |-> "idle"]

NextLookup == \E name \in LookupInputs : Lookup(name)

SpecLookup == InitLookup /\ [][NextLookup]_vars

\* ------------------------------------------------------------------------
\* SpecConsume: one caller runs the pipeline, then the summary and guidance
\* generators and the dashboard read the report, any number of times and in
\* any order
\* ------------------------------------------------------------------------

\* reports with no test, with normal tests only, with tests the table
\* reorders, and with categories the risk sort reorders
ConsumeTexts == {
    "",
    "Sodium : 141\nPotassium : 4.2",
    "Sodium : 141\nHb 18.9\nXYZ-Marker 42\nPotassium 2.9",
    "HDL 50\nLDL 190\nTriglycerides 100\nFasting Glucose 118 mg/dL 70 - 100\nCRP 5.0",
    "Free T4 0.47\nTSH 2.0\nT3 1.2\nESR 90"
}

\* "" stands for no key: None and "" are both false in "if api_key"
ApiKeys == {"", "sk-test"}

\* what the API call returns: None when it failed, else the content
ApiReplies == {
    None,
    [content |-> ""],
    [content |-> "ok"],
    [content |-> "Eat more leafy food."],
    [content |-> "## Health Overview\nStable.\n## Diet Suggestions\nMore iron.\n### Lifestyle\nWalk daily."]
}

InitConsume ==
    /\ Idle
    /\ fp \in FpChoices
    /\ \E t \in ConsumeTexts : text = [c \in Calls |-> IF c = "A" THEN t ELSE ""]
    /\ pc = [c \in Calls |-> IF c = "A" THEN "start" ELSE "idle"]

NextConsume ==
    \/ Next
    \/ \E c \in Calls, api_key \in ApiKeys, raw \in ApiReplies :
           \/ GenerateSummary(c, api_key, raw)
           \/ GenerateHealthGuidance(c, api_key, raw)
    \/ \E c \in Calls :
           \/ RenderResultsTable(c)
           \/ CategorizeRisks(c)

SpecConsume == InitConsume /\ [][NextConsume]_vars

\* ------------------------------------------------------------------------
\* SpecApp: the pipeline of the application, app.py _page_analyze, on an
\* uploaded PDF file: extract_text_from_pdf, parse_lab_values, analyze, the
\* two generators without a key, the dashboard
\* ------------------------------------------------------------------------

\* a file pdfplumber.open cannot read, or a page whose extract_text() raises
Broken == [broken |-> TRUE]

\* extract_text_from_pdf, the body of the try: the text, or what is raised
\* inside it.  A page is None, its text, or Broken
TryExtract(file) ==
    IF file = Broken THEN Raise("Exception")
    ELSE IF file.pages = << >> THEN Raise("EmptyPDFError")
    ELSE IF \E i \in 1..Len(file.pages) : file.pages[i] = Broken THEN Raise("Exception")
    ELSE LET kept == SelectSeq(file.pages, LAMBDA page : page # None /\ page.text # "")
             pages_text == [i \in 1..Len(kept) |-> kept[i].text]
             full_text == strip(JoinLines(pages_text))
         IN  IF full_text = "" THEN Raise("EmptyPDFError") ELSE Returned(full_text)

\* extract_text_from_pdf as it would be without "except EmptyPDFError: raise"
extract_text_from_pdf_wrapsEmpty(file) ==
    LET result == TryExtract(file)
    IN  IF Raised(result) THEN Raise("PDFExtractionError")
        ELSE result

\* extract_text_from_pdf(file): the except clauses around the body
extract_text_from_pdf(file) ==
    LET result == TryExtract(file)
    IN  IF Raised(result) /\ result.raised = "EmptyPDFError" THEN result
        ELSE IF Raised(result) THEN Raise("PDFExtractionError")
        ELSE result

\* _page_analyze: raw_text = extract_text_from_pdf(uploaded); on either
\* error the message is shown and the function returns
ExtractText(c) ==
    /\ pc[c] = "upload"
    /\ LET result == extract_text_from_pdf(uploaded[c])
       IN  IF Raised(result)
           THEN /\ raised' = [raised EXCEPT ![c] = result.raised]
                /\ pc' = [pc EXCEPT ![c] = "stopped"]
                /\ UNCHANGED text
           ELSE /\ text' = [text EXCEPT ![c] = result.returned]
                /\ pc' = [pc EXCEPT ![c] = "start"]
                /\ UNCHANGED raised
    /\ UNCHANGED << lines, cursor, seen, tests, report, query, answer, fp, shown, uploaded >>

\* _page_analyze: if not extracted, the warning is shown and the function
\* returns
NoTests(c) ==
    /\ pc[c] = "parsed"
    /\ tests[c] = << >>
    /\ pc' = [pc EXCEPT ![c] = "stopped"]
    /\ UNCHANGED << text, lines, cursor, seen, tests, report, raised, query, answer, fp,
                    shown, uploaded >>

\* CallAnalyze as it would be without the return on an empty list
CallAnalyze_onEmpty(c) == StartAnalyze(c)

\* _page_analyze: report = analyze(extracted), reached with tests only
CallAnalyze(c) == tests[c] # << >> /\ StartAnalyze(c)

\* _page_analyze: summary = generate_summary(report, api_key=None)
Summarize(c) ==
    /\ shown[c].summary = Pending
    /\ GenerateSummary(c, "", None)

\* _page_analyze: health_guidance = generate_health_guidance(report, api_key=None)
Interpret(c) ==
    /\ shown[c].summary # Pending
    /\ shown[c].guidance = Pending
    /\ GenerateHealthGuidance(c, "", None)

\* _page_analyze: _render_dashboard(report, summary, health_guidance), which
\* categorizes the risks and draws the table
_render_dashboard(c) ==
    /\ pc[c] = "done"
    /\ shown[c].guidance # Pending
    /\ shown[c].risks = Pending
    /\ shown' = [shown EXCEPT ![c].risks = Returned(_categorize_risks(report[c].matched)),
                              ![c].table = Returned(_render_results_table(report[c].matched))]
    /\ UNCHANGED << pc, text, lines, cursor, seen, tests, report, raised, query, answer, fp,
                    uploaded >>

\* most pages of a file
MaxPages == 2

\* what extract_text() gives for a page: nothing, blank text, text without
\* or with lab values, or an exception
PagePool == {
    None,
    [text |-> ""],
    [text |-> " \n\t"],
    [text |-> "Page 1/2\nPatient Name: John Doe"],
    [text |-> "Hb 18.9\nSodium : 141"],
    [text |-> " Potassium 2.9 \n"],
    Broken
}

Pdfs == { Broken } \cup { [pages |-> ps] : ps \in SeqsUpTo(PagePool, MaxPages) }

InitApp ==
    /\ fp \in FpChoices
    /\ \E file \in Pdfs : uploaded = [c \in Calls |-> IF c = "A" THEN file ELSE None]
    /\ pc = [c \in Calls |-> IF c = "A" THEN "upload" ELSE "idle"]
    /\ text = [c \in Calls |-> ""]
    /\ lines = [c \in Calls |-> << >>]
    /\ cursor = [c \in Calls |-> 0]
    /\ seen = [c \in Calls |-> << >>]
    /\ tests = [c \in Calls |-> << >>]
    /\ report = [c \in Calls |-> AnalysisReport]
    /\ raised = [c \in Calls |-> ""]
    /\ query = ""
    /\ answer = Pending
    /\ shown = [c \in Calls |-> NothingShown]

NextApp ==
    \E c \in Calls :
        \/ ExtractText(c)
        \/ StartParse(c)
        \/ ParseStep(c)
        \/ FinishParse(c)
        \/ NoTests(c)
        \/ CallAnalyze(c)
        \/ AnalyzeStep(c)
        \/ Score(c)
        \/ Summarize(c)
        \/ Interpret(c)
        \/ _render_dashboard(c)

SpecApp == InitApp /\ [][NextApp]_vars

\* ------------------------------------------------------------------------
\* SpecPair: two callers run the pipeline, their steps interleaved
\* ------------------------------------------------------------------------

PairTexts == {
    "",
    "Hb 18.9",
    "Hb 18.9\nXYZ-Marker 42",
    "XYZ-Marker 42\nHb 18.9\nHemoglobin 11.2 g/dL (Ref: 12.0 - 17.5)",
    "XYZ-Marker 42",
    "HB 13.5\nSodium : 141\nAge 45",
    "Glucose Fasting 160\nSodium : 141\nhb: 14"
}

InitPair ==
    /\ Idle
    /\ fp \in FpChoices
    /\ text \in [Calls -> PairTexts]
    /\ pc = [c \in Calls |-> "start"]

SpecPair == InitPair /\ [][Next]_vars


\* ------------------------------------------------------------------------
\* Properties
\* ------------------------------------------------------------------------

\* call c has returned from parse_lab_values
Parsed(c) == pc[c] \in {"parsed", "analyze", "done", "raised"}

\* the matched tests of all reports
AllMatched == UNION { { report[c].matched[i] : i \in 1..Len(report[c].matched) } : c \in Calls }

\* the extracted tests of all callers
AllExtracted ==
    UNION { { seen[c][i].test : i \in 1..Len(seen[c]) } \cup { tests[c][i] : i \in 1..Len(tests[c]) }
            : c \in Calls }

\* C1: every matched test has status Normal exactly when its deviation_pct
\* is 0.0, so a Low or High test has a strictly positive deviation_pct.
\* The pipeline violates it: "Fasting glucose 100.04" is High with
\* round(0.04, 1) = 0.0.
C1_NormalIffZeroDeviation ==
    \A t \in AllMatched : (t.status = "Normal") <=> (t.deviation_pct = 0)

\* C2: the health score is an integer from 0 to 100 for every matched list,
\* and exactly 100 for the empty one.
C2_ScoreBounds ==
    \A c \in Calls :
        /\ report[c].health_score \in 0..100
        /\ pc[c] = "done" /\ report[c].matched = << >> => report[c].health_score = 100

\* a scored report with abnormal tests, capped ones among them, and a score
\* below 100
C2_Witness ==
    /\ pc["A"] = "done"
    /\ Len(report["A"].matched) = MaxMatched
    /\ \E i \in 1..MaxMatched : report["A"].matched[i].deviation_pct > 1000
    /\ report["A"].health_score < 100

\* C3: a matched test has severity Normal exactly when its status is Normal;
\* a Low or High test has severity Mild, Moderate or Critical.
C3_SeverityNormalIffStatusNormal ==
    \A t \in AllMatched :
        /\ (t.severity = "Normal") <=> (t.status = "Normal")
        /\ t.status \in {"Low", "High"} => t.severity \in {"Mild", "Moderate", "Critical"}

\* a report holding a Normal test and an abnormal one whose deviation is 0.0
C3_Witness ==
    /\ pc["A"] = "done"
    /\ \E t \in AllMatched : t.status = "Normal"
    /\ \E t \in AllMatched : t.status # "Normal" /\ t.deviation_pct = 0 /\ t.severity = "Mild"

\* what a line yields when it is the only line: no item or one
Candidate(line) == ParseLine(<< >>, line)

\* what each line of call c yields on its own
Candidates(c) == [n \in 1..Len(lines[c]) |-> Candidate(lines[c][n])]

\* the lines, among those of cand, that yield a test whose name is the given
\* one ignoring case
LinesOfKey(cand, key) ==
    { n \in DOMAIN cand : cand[n] # << >> /\ lower(cand[n][1].test.raw_name) = key }

\* C4: the list parse_lab_values returns never holds two tests whose
\* raw_name is equal ignoring case, and a name parsed on several lines keeps
\* the value and the source line of the first of them in the text.
C4_FirstOccurrenceWins ==
    \A c \in Calls : Parsed(c) =>
        LET cand == Candidates(c)
        IN  /\ \A i, j \in 1..Len(tests[c]) :
                   i # j => lower(tests[c][i].raw_name) # lower(tests[c][j].raw_name)
            /\ \A i \in 1..Len(tests[c]) :
                   LET from == LinesOfKey(cand, lower(tests[c][i].raw_name))
                   IN  /\ from # {}
                       /\ tests[c][i] = cand[CHOOSE n \in from : \A m \in from : n <= m][1].test
            /\ \A n \in DOMAIN cand :
                   cand[n] # << >> =>
                       \E i \in 1..Len(tests[c]) :
                           lower(tests[c][i].raw_name) = lower(cand[n][1].test.raw_name)

\* a name parsed on two lines in different case and with different values
C4_Witness ==
    /\ Parsed("A")
    /\ LET cand == Candidates("A")
       IN  \E n, m \in DOMAIN cand :
               /\ n < m
               /\ cand[n] # << >>
               /\ cand[m] # << >>
               /\ lower(cand[n][1].test.raw_name) = lower(cand[m][1].test.raw_name)
               /\ cand[n][1].test.raw_name # cand[m][1].test.raw_name
               /\ cand[n][1].test.value # cand[m][1].test.value

\* C5: every alias belongs to one entry of the catalog, and lookup of an
\* alias returns the canonical name and the range that lookup of the
\* entry's canonical name returns.
C5_AliasSymmetry ==
    answer # Pending =>
        \A n \in 1..Len(NORMAL_RANGES) :
            AssignsKey(n, lower(strip(query))) =>
                /\ answer = lookup(NORMAL_RANGES[n].name)
                /\ answer = [canonical_name |-> NORMAL_RANGES[n].name,
                             ref |-> RangeOf(NORMAL_RANGES[n].name)]

\* lookup was called with an alias that is no canonical name
C5_Witness ==
    /\ answer # Pending
    /\ query \in AliasesFrom(1) \ RangeKeys

\* the first numeric token of a line that is no part of a word: digits,
\* optionally "." and digits, not preceded by a letter, digit or "_";
\* "" if there is none
FirstNumericToken(s) ==
    LET starts == { i \in 1..Len(s) : IsDigit(Ch(s, i)) /\ (i = 1 \/ ~IsWord(Ch(s, i - 1))) }
        b == CHOOSE i \in starts : \A j \in starts : i <= j
        e == RunEnd(s, b, DigitSet)
        f == IF e + 1 <= Len(s) /\ Ch(s, e) = "." /\ IsDigit(Ch(s, e + 1))
             THEN RunEnd(s, e + 1, DigitSet) ELSE e
    IN  IF starts = {} THEN "" ELSE SubSeq(s, b, f - 1)

\* C6: the value of an extracted test is the first numeric token after the
\* test name on its line, never a later token of the line.  The parser
\* violates it: from "Hemoglobin 11.2 g/dL (Ref: 12.0 - 17.5)" it captures
\* the bound 12.0, from "Hemoglobin 11.2g/dL" the value 11.
C6_FirstNumericToken ==
    \A t \in AllExtracted :
        /\ FirstNumericToken(t.line) # ""
        /\ t.value = float(FirstNumericToken(t.line))

\* C7: two runs of the pipeline on the same text, their steps interleaved in
\* any order, return equal reports.
C7_Idempotent ==
    \A c, d \in Calls :
        pc[c] = "done" /\ pc[d] = "done" /\ text[c] = text[d] => report[c] = report[d]

\* both callers have run the pipeline on the same text, which yields matched
\* and unrecognized tests
C7_Witness ==
    /\ pc["A"] = "done" /\ pc["B"] = "done"
    /\ text["A"] = text["B"]
    /\ report["A"].matched # << >>
    /\ report["A"].unrecognized # << >>

\* C8: two reports with the same matched tests have the same health score,
\* whatever their unrecognized tests; a report without matched tests scores
\* 100.
C8_ScoreIgnoresUnrecognized ==
    \A c, d \in Calls :
        pc[c] = "done" /\ pc[d] = "done" =>
            /\ report[c].matched = report[d].matched => report[c].health_score = report[d].health_score
            /\ report[c].matched = << >> => report[c].health_score = 100

\* two reports with the same abnormal matched test and different numbers of
\* unrecognized tests
C8_Witness ==
    /\ pc["A"] = "done" /\ pc["B"] = "done"
    /\ report["A"].matched = report["B"].matched
    /\ report["A"].matched # << >>
    /\ report["A"].health_score < 100
    /\ Len(report["A"].unrecognized) # Len(report["B"].unrecognized)

\* lookup knows no entry for the name of test t
Unrecognized(t) == lookup(t.raw_name) = None

\* C9: analyze raises nothing, whatever the tests; a test of unknown name
\* goes to report.unrecognized and the loop goes on to the next test, so that
\* every test handled so far is in one of the two lists of the report.
C9_AnalyzeNeverRaises ==
    \A c \in Calls :
        /\ pc[c] # "raised"
        /\ raised[c] = ""
        /\ pc[c] \in {"analyze", "done"} =>
               LET handled == SubSeq(tests[c], 1, cursor[c] - 1)
               IN  /\ report[c].unrecognized = SelectSeq(handled, Unrecognized)
                   /\ Len(report[c].matched) + Len(report[c].unrecognized) = Len(handled)

\* analyze has returned a report for a list with an unknown name before a
\* known one, whose value is negative and whose range starts at 0
C9_Witness ==
    /\ pc["A"] = "done"
    /\ Len(tests["A"]) = MaxTests
    /\ Unrecognized(tests["A"][1])
    /\ report["A"].unrecognized # << >>
    /\ Len(report["A"].matched) = MaxTests - 1
    /\ \E i \in 1..Len(report["A"].matched) :
           /\ report["A"].matched[i].value < 0
           /\ report["A"].matched[i].min_value = 0
           /\ report["A"].matched[i].status = "Low"

\* s starts with the literal w, ignoring case
StartsWith(s, w) == Len(s) >= Len(w) /\ lower(SubSeq(s, 1, Len(w))) = w

\* the prefixes that mark a line as noise
NoisePrefixes == {"page ", "date ", "sample id", "patient ", "referred ", "age ",
                  "test name", "this report", "dr. ", "chief "}

\* the line, trimmed, is shorter than 4 characters, starts with one of the
\* prefixes or holds two asterisks in a row
PrefixNoise(line) ==
    LET s == strip(line)
    IN  \/ Len(s) < 4
        \/ \E w \in NoisePrefixes : StartsWith(s, w)
        \/ \E i \in 1..(Len(s) - 1) : SubSeq(s, i, i + 1) = "**"

\* the same, "test name" counting only as whole words: not when a letter,
\* digit or "_" follows it
WholeWordNoise(line) ==
    LET s == strip(line)
    IN  \/ Len(s) < 4
        \/ \E w \in NoisePrefixes \ {"test name"} : StartsWith(s, w)
        \/ StartsWith(s, "test name") /\ BoundaryAt(s, Len("test name") + 1)
        \/ \E i \in 1..(Len(s) - 1) : SubSeq(s, i, i + 1) = "**"

\* the text of the noise scenario
NoiseScenario == "Page 1/2\nPatient Name: John Doe\nHemoglobin 11.2 g/dL 12.0 - 17.5"

\* C10 as stated: no extracted test has a source line that is shorter than 4
\* characters, starts with a noise prefix or holds "**".  The parser
\* extracts "Test Names" = 42 from "Test Names 42", which starts with
\* "test name".
C10_PrefixNoiseNeverExtracted ==
    \A t \in AllExtracted : ~PrefixNoise(t.line)

\* C10: no extracted test has a source line that is shorter than 4
\* characters, starts with a noise prefix ("test name" as whole words) or
\* holds "**"; from the scenario text only Hemoglobin is extracted, with
\* value 11.2 and status Low.
C10_NoiseNeverExtracted ==
    /\ \A t \in AllExtracted : ~WholeWordNoise(t.line)
    /\ \A c \in Calls :
           /\ text[c] = NoiseScenario /\ Parsed(c) =>
                  /\ Len(tests[c]) = 1
                  /\ tests[c][1].raw_name = "Hemoglobin"
                  /\ tests[c][1].value = 11200
           /\ text[c] = NoiseScenario /\ pc[c] = "done" =>
                  /\ report[c].unrecognized = << >>
                  /\ Len(report[c].matched) = 1
                  /\ report[c].matched[1].canonical_name = "hemoglobin"
                  /\ report[c].matched[1].status = "Low"

\* the pipeline has run on a text with a noise line that holds a name and a
\* number, and with a line that is extracted
C10_Witness ==
    /\ pc["A"] = "done"
    /\ tests["A"] # << >>
    /\ \E n \in 1..Len(lines["A"]) :
           /\ WholeWordNoise(lines["A"][n])
           /\ Len(strip(lines["A"][n])) >= 4
           /\ TabularMatch(lines["A"][n]).found

\* the text of the all-normal scenario
AllNormalScenario == "Sodium : 141\nPotassium : 4.2"

\* every test of the report of call c is matched, with its value inside the
\* inclusive range
AllInRange(c) ==
    /\ report[c].unrecognized = << >>
    /\ \A i \in 1..Len(report[c].matched) :
           LET t == report[c].matched[i]
           IN  t.min_value <= t.value /\ t.value <= t.max_value

\* C11: when every extracted test resolves in the catalog with its value
\* inside the inclusive range, every matched test is Normal and the health
\* score is 100; "Sodium : 141", "Potassium : 4.2" gives two matched tests,
\* both Normal, and the score 100.
C11_AllNormalScores100 ==
    \A c \in Calls : pc[c] = "done" =>
        /\ AllInRange(c) =>
               /\ \A i \in 1..Len(report[c].matched) : report[c].matched[i].status = "Normal"
               /\ report[c].health_score = 100
        /\ text[c] = AllNormalScenario =>
               /\ Len(report[c].matched) = 2
               /\ report[c].matched[1].canonical_name = "sodium"
               /\ report[c].matched[2].canonical_name = "potassium"
               /\ AllInRange(c)

\* the pipeline has returned a report of two tests whose values lie on the
\* bounds of their ranges
C11_Witness ==
    /\ pc["A"] = "done"
    /\ AllInRange("A")
    /\ Len(report["A"].matched) = 2
    /\ report["A"].matched[1].value = report["A"].matched[1].min_value
    /\ report["A"].matched[2].value = report["A"].matched[2].max_value

\* the text of the single-high-value scenario
SingleHighScenario == "Fasting Glucose 118 mg/dL 70 - 100"

\* C12: "Fasting Glucose 118 mg/dL 70 - 100" gives one matched test, fasting
\* glucose with value 118, status High, deviation_pct 18.0 and severity
\* Moderate, no unrecognized test, and a health score above 50 and below 100.
C12_SingleHighValue ==
    \A c \in Calls : pc[c] = "done" /\ text[c] = SingleHighScenario =>
        /\ report[c].unrecognized = << >>
        /\ Len(report[c].matched) = 1
        /\ report[c].matched[1].canonical_name = "fasting glucose"
        /\ report[c].matched[1].value = 118 * Scale
        /\ report[c].matched[1].status = "High"
        /\ report[c].matched[1].deviation_pct = 180
        /\ report[c].matched[1].severity = "Moderate"
        /\ report[c].health_score > 50
        /\ report[c].health_score < 100

\* the pipeline has returned the report of the scenario
C12_Witness ==
    /\ pc["A"] = "done"
    /\ text["A"] = SingleHighScenario
    /\ report["A"].matched # << >>

\* name, trimmed and in lower case, is a canonical name of the catalog or one
\* of its aliases in lower case
KnownSpelling(name) ==
    LET k == lower(strip(name))
    IN  \E n \in 1..Len(NORMAL_RANGES) :
            \/ k = NORMAL_RANGES[n].name
            \/ \E j \in 1..Len(NORMAL_RANGES[n].aliases) : k = lower(NORMAL_RANGES[n].aliases[j])

\* C13: lookup(name) returns a match exactly when name, trimmed and in lower
\* case, equals a canonical name or an alias in lower case; every other
\* spelling returns None, nothing is raised, and the canonical name returned
\* is a key of the catalog.
C13_ExactMatchOnly ==
    answer # Pending =>
        /\ ~Raised(answer)
        /\ (answer # None) <=> KnownSpelling(query)
        /\ answer # None => answer.canonical_name \in RangeKeys

\* lookup has returned None for a catalog name with a word more
C13_Witness ==
    /\ answer = None
    /\ \E n \in CatalogNames : query = n \o " level"

\* d tenths of a percent is diff / span * 100 rounded to one decimal place:
\* no tenth is nearer, |d / 10 - diff / span * 100| <= 0.05
IsRoundedPercentage(d, diff, span) == Abs(d * span - 1000 * diff) <= span \div 2

\* C14: a matched test is Low when its value is below min_value, High when
\* it is above max_value and Normal with deviation 0.0 otherwise; the
\* deviation of a Low or High test is |boundary - value| / span * 100
\* rounded to one decimal place, span being the violated boundary, or 1.0
\* when that boundary is 0; no ZeroDivisionError is raised.
C14_ClassifyFormula ==
    /\ \A c \in Calls : raised[c] # "ZeroDivisionError"
    /\ \A t \in AllMatched :
           IF t.value < t.min_value
           THEN /\ t.status = "Low"
                /\ IsRoundedPercentage(t.deviation_pct, t.min_value - t.value,
                                       IF t.min_value = 0 THEN Scale ELSE t.min_value)
           ELSE IF t.value > t.max_value
           THEN /\ t.status = "High"
                /\ IsRoundedPercentage(t.deviation_pct, t.value - t.max_value,
                                       IF t.max_value = 0 THEN Scale ELSE t.max_value)
           ELSE t.status = "Normal" /\ t.deviation_pct = 0

\* analyze has classified a negative value under a range that starts at 0
C14_Witness ==
    /\ pc["A"] = "done"
    /\ \E t \in AllMatched :
           /\ t.min_value = 0
           /\ t.value < 0
           /\ t.status = "Low"
           /\ t.deviation_pct > 0

\* the severity of a deviation of d tenths of a percent when the tier
\* Moderate ends at moderateMax percent
Tier(d, moderateMax) ==
    IF d <= 10 * 10 THEN "Mild"
    ELSE IF d <= moderateMax * 10 THEN "Moderate"
    ELSE "Critical"

\* C15: a High test is Mild up to a deviation of 10 %, Moderate up to 30 %
\* and Critical above; a Low test is Mild up to 10 %, Moderate up to 25 % and
\* Critical above.
C15_SeverityTiers ==
    \A t \in AllMatched :
        /\ t.status = "High" => t.severity = Tier(t.deviation_pct, 30)
        /\ t.status = "Low" => t.severity = Tier(t.deviation_pct, 25)

\* analyze has returned a Low test whose deviation, above 25 % and at most
\* 30 %, would be Moderate for a High test
C15_Witness ==
    /\ pc["A"] = "done"
    /\ \E t \in AllMatched :
           /\ t.status = "Low"
           /\ t.deviation_pct > 250
           /\ t.deviation_pct <= 300
           /\ t.severity = "Critical"

\* the product of the numbers of xs
RECURSIVE BigProduct(_)
BigProduct(xs) == IF xs = << >> THEN << 1 >> ELSE BigTimes(BigProduct(Tail(xs)), Head(xs))

\* the sum of the numbers of bs
RECURSIVE BigSum(_)
BigSum(bs) == IF bs = << >> THEN << 0 >> ELSE BigPlus(Head(bs), BigSum(Tail(bs)))

\* xs without its element at index i
Without(xs, i) == SubSeq(xs, 1, i - 1) \o SubSeq(xs, i + 1, Len(xs))

\* s = round(100 - P) for the matched tests ms, P being the sum over the
\* abnormal tests of (100 / n) * (c / (c + 20)), c = min(deviation_pct, 100):
\* with c in tenths of a percent, P = 100 * num / den for
\* den = n * product of (c + 200) and num = sum of c * product of the other
\* (c + 200), and s is a nearest integer when |s - (100 - P)| <= 1/2, that
\* is 200 * den - den <= 2 * (s * den + 100 * num) <= 200 * den + den
IsPenalisedScore(s, ms) ==
    LET n == Len(ms)
        abnormal == SelectSeq(ms, LAMBDA t : t.status # "Normal")
        c == [i \in 1..Len(abnormal) |->
                 IF abnormal[i].deviation_pct > 1000 THEN 1000 ELSE abnormal[i].deviation_pct]
        plus20 == [i \in 1..Len(abnormal) |-> c[i] + 200]
        den == BigTimes(BigProduct(plus20), n)
        num == BigSum([i \in 1..Len(abnormal) |-> BigTimes(BigProduct(Without(plus20, i)), c[i])])
        twice == BigTimes(BigPlus(BigTimes(den, s), BigTimes(num, 100)), 2)
    IN  /\ s >= 0
        /\ ~BigLess(BigTimes(den, 201), twice)
        /\ ~BigLess(BigPlus(twice, den), BigTimes(den, 200))

\* C16: the health score of a non-empty matched list of n tests is
\* max(0, round(100 - P)), P being the sum over the abnormal tests of
\* (100 / n) * (c / (c + 20)) with c = min(deviation_pct, 100.0): Normal
\* tests add no penalty but count in n, and a deviation above 100 adds what
\* a deviation of 100 adds.
C16_ScoreFormula ==
    \A c \in Calls : pc[c] = "done" /\ report[c].matched # << >> =>
        IsPenalisedScore(report[c].health_score, report[c].matched)

\* a scored list that holds a Normal test, a test whose deviation is above
\* 100 % and one whose deviation is below
C16_Witness ==
    /\ pc["A"] = "done"
    /\ report["A"].health_score < 100
    /\ \E i, j, k \in 1..Len(report["A"].matched) :
           /\ report["A"].matched[i].status = "Normal"
           /\ report["A"].matched[j].deviation_pct > 1000
           /\ report["A"].matched[k].status # "Normal"
           /\ report["A"].matched[k].deviation_pct < 1000

\* the name and the value of each test of ts, in order
NamesAndValues(ts) == [i \in 1..Len(ts) |-> << ts[i].raw_name, ts[i].value >>]

\* lookup knows an entry for the name of test t
Recognized(t) == ~Unrecognized(t)

\* C17: report.matched holds the recognized tests and report.unrecognized
\* the unrecognized ones in the order of the input list, and
\* parse_lab_values returns the tests in the order of the first lines on
\* which their names were parsed.
C17_OrderPreserved ==
    \A c \in Calls :
        /\ pc[c] = "parsed" =>
               LET cand == Candidates(c)
                   first == [i \in 1..Len(tests[c]) |->
                                LET from == LinesOfKey(cand, lower(tests[c][i].raw_name))
                                IN  CHOOSE n \in from : \A m \in from : n <= m]
               IN  \A i \in 1..(Len(tests[c]) - 1) : first[i] < first[i + 1]
        /\ pc[c] \in {"analyze", "done"} =>
               LET handled == SubSeq(tests[c], 1, cursor[c] - 1)
                   unknown == [i \in 1..Len(handled) |-> Unrecognized(handled[i])]
                   RECURSIVE Pick(_, _)
                   Pick(i, want) ==
                       IF i > Len(handled) THEN << >>
                       ELSE (IF unknown[i] = want THEN << handled[i] >> ELSE << >>)
                            \o Pick(i + 1, want)
               IN  /\ NamesAndValues(report[c].matched) = NamesAndValues(Pick(1, FALSE))
                   /\ report[c].unrecognized = Pick(1, TRUE)

\* the pipeline has returned a report for a text in which recognized and
\* unrecognized names alternate and a name is repeated
C17_Witness ==
    /\ pc["A"] = "done"
    /\ Len(tests["A"]) < Cardinality({ n \in 1..Len(lines["A"]) : Candidate(lines["A"][n]) # << >> })
    /\ Len(report["A"].matched) >= 2
    /\ Len(report["A"].unrecognized) >= 2
    /\ Recognized(tests["A"][1])
    /\ Unrecognized(tests["A"][2])
    /\ Recognized(tests["A"][3])

\* parse_lab_values(t) run alone, from start to return
ParseAlone(t) ==
    LET ls == splitlines(t)
        RECURSIVE From(_, _)
        From(dict, i) == IF i > Len(ls) THEN dict ELSE From(ParseLine(dict, ls[i]), i + 1)
    IN  SeenValues(From(<< >>, 1))

\* analyze(ts) run alone, from start to return, for tests on which it does
\* not raise
AnalyzeAlone(ts) ==
    LET RECURSIVE From(_, _)
        From(rep, i) == IF i > Len(ts) THEN rep ELSE From(AnalyzeTest(rep, ts[i]), i + 1)
        rep == From(AnalysisReport, 1)
    IN  [rep EXCEPT !.health_score = _compute_health_score(rep.matched)]

\* C18: calls of the pipeline on different texts, their per-line and
\* per-test steps interleaved in any way, each return the report they
\* return when run alone.  (The catalog and its alias index, the only state
\* the calls share, are constants of the model: no action can change them.)
C18_InterleavedAsAlone ==
    \A c \in Calls :
        /\ pc[c] # "raised"
        /\ Parsed(c) => tests[c] = ParseAlone(text[c])
        /\ pc[c] = "done" => report[c] = AnalyzeAlone(ParseAlone(text[c]))

\* both callers have returned, for different texts that hold the same name
\* with different values
C18_Witness ==
    /\ pc["A"] = "done" /\ pc["B"] = "done"
    /\ text["A"] # text["B"]
    /\ \E i \in 1..Len(tests["A"]) : \E j \in 1..Len(tests["B"]) :
           /\ lower(tests["A"][i].raw_name) = lower(tests["B"][j].raw_name)
           /\ tests["A"][i].value # tests["B"][j].value

\* C19: once analyze has returned the report, no step of a consumer, whatever
\* the key and whatever the API replies, changes its matched list, its
\* unrecognized list, its health score or any field of any of its tests
C19_ConsumersLeaveReport ==
    [][\A c \in Calls : pc[c] = "done" => report'[c] = report[c]]_vars

\* every consumer has run on a report with an unrecognized test: the summary
\* came from the API, the guidance fell back to the rules after a failed
\* call, and the table shows the tests in another order than the report
C19_Witness ==
    LET r == report["A"]
        s == shown["A"]
    IN  /\ pc["A"] = "done"
        /\ r.unrecognized # << >>
        /\ s.summary # Pending /\ s.guidance # Pending
        /\ s.table # Pending /\ s.risks # Pending
        /\ s.summary.returned.generated_by = "openai"
        /\ s.guidance.api_key # "" /\ s.guidance.reply = None
        /\ s.guidance.returned.generated_by = "rule-based"
        /\ Len(s.table.returned) = Len(r.matched)
        /\ s.table.returned[1].test # title(r.matched[1].canonical_name)
        /\ s.risks.returned # << >>

\* the test a match would put into the dict, as name and value
Captured(m) == << _clean_name(m.name), float(m.value) >>

\* C20: a line that is not noise and that the colon pattern matches is decided
\* by that match alone: the step adds the test the colon match captured or
\* adds nothing, and it adds nothing when that name is shorter than two
\* characters or already in the dict, whatever the tabular pattern would
\* capture.  A line the colon pattern does not match adds only what the
\* tabular pattern captured.
C20_ColonDecides ==
    [][\A c \in Calls :
          (pc[c] = "parse" /\ cursor'[c] = cursor[c] + 1 /\ ~_is_noise(lines[c][cursor[c]]))
          => LET line == lines[c][cursor[c]]
                 colon == ColonMatch(line)
                 tabular == TabularMatch(line)
                 last == seen'[c][Len(seen'[c])].test
                 addedOne == /\ Len(seen'[c]) = Len(seen[c]) + 1
                             /\ SubSeq(seen'[c], 1, Len(seen[c])) = seen[c]
                 name == Captured(colon)[1]
             IN  IF colon.found
                 THEN /\ \/ seen'[c] = seen[c]
                         \/ addedOne /\ << last.raw_name, last.value >> = Captured(colon)
                      /\ (Len(name) < 2 \/ lower(name) \in SeenKeys(seen[c]))
                            => seen'[c] = seen[c]
                 ELSE \/ seen'[c] = seen[c]
                      \/ /\ tabular.found
                         /\ addedOne
                         /\ << last.raw_name, last.value >> = Captured(tabular)
    ]_vars

\* the second line has just been read: the colon pattern matched it and
\* captured a name the dict already holds, the tabular pattern matches it
\* too and captures a test the dict does not hold, and nothing was added
C20_Witness ==
    /\ pc["A"] = "parse"
    /\ cursor["A"] = 3
    /\ Len(seen["A"]) = 1
    /\ LET line == lines["A"][2]
           colon == ColonMatch(line)
           tabular == TabularMatch(line)
       IN  /\ ~_is_noise(line)
           /\ colon.found /\ tabular.found
           /\ lower(Captured(colon)[1]) \in SeenKeys(seen["A"])
           /\ Len(Captured(tabular)[1]) >= 2
           /\ lower(Captured(tabular)[1]) \notin SeenKeys(seen["A"])

\* the match that decides a line: the colon match if there is one, else the
\* tabular match
Deciding(line) ==
    LET colon == ColonMatch(line)
    IN  IF colon.found THEN colon ELSE TabularMatch(line)

\* the line is not noise and the name its deciding match captured has, once
\* cleaned, fewer than two characters
ShortNamed(line) ==
    LET m == Deciding(line)
    IN  /\ ~_is_noise(line)
        /\ m.found
        /\ Len(_clean_name(m.name)) < 2

\* C21: every raw_name in the dict and in the list parse_lab_values returns
\* has at least two characters, and a line whose cleaned name is empty or a
\* single character, such as "K 4.2", is the source line of no test.
C21_ShortNameRejected ==
    \A c \in Calls :
        /\ \A i \in 1..Len(seen[c]) : Len(seen[c][i].test.raw_name) >= 2
        /\ \A i \in 1..Len(tests[c]) : Len(tests[c][i].raw_name) >= 2
        /\ pc[c] = "parsed" =>
               \A n \in 1..Len(lines[c]) :
                   ShortNamed(lines[c][n]) =>
                       \A i \in 1..Len(tests[c]) : tests[c][i].line # strip(lines[c][n])

\* parse_lab_values has returned tests from a text that has the line "K 4.2"
C21_Witness ==
    /\ pc["A"] = "parsed"
    /\ tests["A"] # << >>
    /\ \E n \in 1..Len(lines["A"]) :
           /\ lines["A"][n] = "K 4.2"
           /\ ShortNamed(lines["A"][n])

\* the line is noise, or neither pattern matches it
Skipped(line) ==
    \/ _is_noise(line)
    \/ ~ColonMatch(line).found /\ ~TabularMatch(line).found

\* the lines of ls that are not skipped, in their order
RECURSIVE WithoutSkipped(_)
WithoutSkipped(ls) ==
    IF ls = << >> THEN << >>
    ELSE IF Skipped(Head(ls)) THEN WithoutSkipped(Tail(ls))
    ELSE << Head(ls) >> \o WithoutSkipped(Tail(ls))

\* C22: parse_lab_values never raises, and it returns for a text what it
\* returns for the text without its noise lines and without the lines that
\* match neither pattern: the same tests with the same values and source
\* lines in the same order, wherever the skipped lines stand.
C22_SkippedLinesLeaveNoTrace ==
    \A c \in Calls :
        /\ pc[c] \in {"parse", "parsed"} => raised[c] = ""
        /\ pc[c] = "parsed" => tests[c] = ParseAlone(JoinLines(WithoutSkipped(lines[c])))

\* parse_lab_values has returned two tests from a text in which a noise line
\* and a line that matches no pattern stand between lines that yield a test
C22_Witness ==
    /\ pc["A"] = "parsed"
    /\ Len(tests["A"]) = 2
    /\ \E i, n, m, j \in 1..Len(lines["A"]) :
           /\ i < n /\ i < m /\ n < j /\ m < j
           /\ Candidate(lines["A"][i]) # << >>
           /\ Candidate(lines["A"][j]) # << >>
           /\ _is_noise(lines["A"][n])
           /\ ~_is_noise(lines["A"][m])
           /\ ~ColonMatch(lines["A"][m]).found /\ ~TabularMatch(lines["A"][m]).found

\* the stage of _page_analyze that call c has reached, counted from the
\* upload: 0 before the text is extracted, 1 to 2 while and after it is
\* parsed, 3 while it is analyzed, 4 with the report, 5 with the summary, 6
\* with the guidance, 7 with the dashboard
Stage(c) ==
    IF pc[c] \in {"upload", "stopped", "idle"} THEN 0
    ELSE IF pc[c] \in {"start", "parse"} THEN 1
    ELSE IF pc[c] = "parsed" THEN 2
    ELSE IF pc[c] # "done" THEN 3
    ELSE IF shown[c].summary = Pending THEN 4
    ELSE IF shown[c].guidance = Pending THEN 5
    ELSE IF shown[c].risks = Pending THEN 6
    ELSE 7

\* C23: in the application analyze runs only on the non-empty list that
\* parse_lab_values returned for the text that extract_text_from_pdf
\* returned without raising; the summary exists only with the finished
\* report, the guidance only with the summary, the dashboard only with the
\* guidance; and a pipeline stopped by EmptyPDFError, PDFExtractionError or
\* an empty list has no report, no summary, no guidance and no dashboard.
C23_StagesInOrder ==
    \A c \in Calls :
        /\ pc[c] \in {"analyze", "done", "raised"} =>
               /\ raised[c] \notin {"EmptyPDFError", "PDFExtractionError"}
               /\ ~Raised(extract_text_from_pdf(uploaded[c]))
               /\ text[c] = extract_text_from_pdf(uploaded[c]).returned
               /\ tests[c] # << >>
               /\ tests[c] = ParseAlone(text[c])
        /\ pc[c] # "done" => shown[c] = NothingShown
        /\ pc[c] \notin {"analyze", "done", "raised"} => report[c] = AnalysisReport
        /\ shown[c].guidance # Pending => shown[c].summary # Pending
        /\ shown[c].risks # Pending => shown[c].guidance # Pending
        /\ shown[c].table # Pending <=> shown[c].risks # Pending
        /\ pc[c] = "stopped" =>
               \/ raised[c] \in {"EmptyPDFError", "PDFExtractionError"} /\ text[c] = ""
               \/ raised[c] = "" /\ text[c] # "" /\ tests[c] = << >>
                  /\ ParseAlone(text[c]) = << >>

\* the dashboard of a file with tests is drawn, all stages passed
C23_Witness ==
    /\ Stage("A") = 7
    /\ Len(uploaded["A"].pages) = 2
    /\ Len(report["A"].matched) = 3

\* the file opens and every page of it gives its text without raising
Readable(file) ==
    /\ file # Broken
    /\ \A i \in 1..Len(file.pages) : file.pages[i] # Broken

\* the file has no page, or no page of it has text other than whitespace
NoPagesOrText(file) ==
    \A i \in 1..Len(file.pages) : file.pages[i] = None \/ strip(file.pages[i].text) = ""

\* C24: extract_text_from_pdf returns a string that is not empty, or raises:
\* EmptyPDFError itself exactly for a readable file with no pages or with no
\* text on any page, PDFExtractionError exactly for a file or a page that
\* cannot be read; whenever it raises, no text is returned.
C24_TextOrError ==
    \A c \in Calls :
        (uploaded[c] # None /\ pc[c] # "upload") =>
            LET file == uploaded[c]
            IN  /\ raised[c] = "" => text[c] # "" /\ text[c] = strip(text[c])
                /\ raised[c] = "" <=> Readable(file) /\ ~NoPagesOrText(file)
                /\ raised[c] = "EmptyPDFError" <=> Readable(file) /\ NoPagesOrText(file)
                /\ raised[c] = "PDFExtractionError" <=> ~Readable(file)
                /\ raised[c] # "" => text[c] = "" /\ pc[c] = "stopped"

\* extraction has raised EmptyPDFError for a file of two pages, one without
\* text and one with blank text
C24_Witness ==
    /\ pc["A"] = "stopped"
    /\ raised["A"] = "EmptyPDFError"
    /\ uploaded["A"] = [pages |-> << None, [text |-> " \n\t"] >>]

\* how many tests of ts have the given name and value
Occurrences(ts, name, value) ==
    Cardinality({ i \in 1..Len(ts) : ts[i].raw_name = name /\ ts[i].value = value })

\* C25: when analyze returns, every test it was given is in exactly one of
\* report.matched and report.unrecognized: the two lists together are as
\* long as the input, each test is found in them as often as in the input,
\* and a test is in matched exactly when lookup finds its raw_name, that is
\* when the name is a spelling the catalog knows, and in unrecognized
\* otherwise.
C25_MatchedOrUnrecognized ==
    \A c \in Calls : pc[c] = "done" =>
        LET r == report[c]
        IN  /\ Len(r.matched) + Len(r.unrecognized) = Len(tests[c])
            /\ \A i \in 1..Len(tests[c]) :
                   LET t == tests[c][i]
                       inMatched == Occurrences(r.matched, t.raw_name, t.value)
                       inUnrecognized == Occurrences(r.unrecognized, t.raw_name, t.value)
                   IN  /\ inMatched + inUnrecognized = Occurrences(tests[c], t.raw_name, t.value)
                       /\ inMatched = 0 \/ inUnrecognized = 0
                       /\ inMatched > 0 <=> lookup(t.raw_name) # None
                       /\ inMatched > 0 <=> KnownSpelling(t.raw_name)

\* analyze has returned a report for a test of known name followed by one of
\* unknown name
C25_Witness ==
    /\ pc["A"] = "done"
    /\ Len(tests["A"]) = 2
    /\ KnownSpelling(tests["A"][1].raw_name)
    /\ ~KnownSpelling(tests["A"][2].raw_name)
    /\ Len(report["A"].matched) = 1
    /\ Len(report["A"].unrecognized) = 1

\* the penalty of the matched tests ms, the sum over the abnormal ones of
\* (100 / n) * (c / (c + 20)) with c = min(deviation_pct, 100), is at most
\* limit hundredths: 100 * (100 * num) <= limit * den, num and den as in
\* IsPenalisedScore
PenaltyAtMost(ms, limit) ==
    LET abnormal == SelectSeq(ms, LAMBDA t : t.status # "Normal")
        c == [i \in 1..Len(abnormal) |->
                 IF abnormal[i].deviation_pct > 1000 THEN 1000 ELSE abnormal[i].deviation_pct]
        plus20 == [i \in 1..Len(abnormal) |-> c[i] + 200]
        den == BigTimes(BigProduct(plus20), Len(ms))
        num == BigSum([i \in 1..Len(abnormal) |-> BigTimes(BigProduct(Without(plus20, i)), c[i])])
    IN  ~BigLess(BigTimes(den, limit), BigTimes(num, 100 * 100))

\* C26: for every matched list the capped deviation c of a test gives
\* c / (c + 20) <= 100 / 120, the penalty is at most 83.34, the health score
\* is at least 17, and the score is the rounded 100 - penalty itself, which
\* is never negative, so that max(0, ...) changes nothing.
C26_ScoreAtLeast17 ==
    \A c \in Calls : pc[c] = "done" =>
        LET ms == report[c].matched
        IN  /\ \A i \in 1..Len(ms) :
                   120 * Min(ms[i].deviation_pct, 1000) <= 100 * (Min(ms[i].deviation_pct, 1000) + 200)
            /\ ms # << >> => PenaltyAtMost(ms, 8334)
            /\ report[c].health_score >= 17
            /\ ms # << >> => IsPenalisedScore(report[c].health_score, ms)

\* the lowest score: every test of the list is abnormal with a deviation of
\* 100 % or more, the penalty is above 83.33 and the score is 17
C26_Witness ==
    /\ pc["A"] = "done"
    /\ Len(report["A"].matched) = MaxMatched
    /\ \A i \in 1..MaxMatched :
           /\ report["A"].matched[i].status # "Normal"
           /\ report["A"].matched[i].deviation_pct >= 1000
    /\ ~PenaltyAtMost(report["A"].matched, 8333)
    /\ report["A"].health_score = 17

\* C27: the pipeline removes repeated raw names only: every parsed test whose
\* name the catalog knows has its own entry in report.matched, also when
\* another parsed test resolves to the same canonical name, and the health
\* score is the score of the whole matched list, each entry counted in the
\* number of tests and penalised for itself.
C27_AliasesKeptApart ==
    \A c \in Calls : pc[c] = "done" =>
        LET ms == report[c].matched
            known == { i \in 1..Len(tests[c]) : lower(strip(tests[c][i].raw_name)) \in AliasKeys }
        IN  /\ Len(ms) = Cardinality(known)
            /\ \A i \in known :
                   \E j \in 1..Len(ms) :
                       /\ ms[j].raw_name = tests[c][i].raw_name
                       /\ ms[j].value = tests[c][i].value
            /\ \A i, j \in 1..Len(ms) : i # j => lower(ms[i].raw_name) # lower(ms[j].raw_name)
            /\ ms # << >> => IsPenalisedScore(report[c].health_score, ms)

\* the report of a text that names one test by two spellings, both values
\* out of range: two entries with one canonical name, both penalised
C27_Witness ==
    /\ pc["A"] = "done"
    /\ Len(report["A"].matched) = 2
    /\ report["A"].matched[1].canonical_name = report["A"].matched[2].canonical_name
    /\ report["A"].matched[1].raw_name # report["A"].matched[2].raw_name
    /\ report["A"].matched[1].status # "Normal"
    /\ report["A"].matched[2].status # "Normal"
    /\ report["A"].health_score < 100

\* C28: parse_lab_values produces no negative value, so that in the pipeline
\* a test whose range starts at 0 is never Low, a Low deviation_pct is at
\* most 100, and the boundary a deviation is taken relative to is never 0:
\* not the minimum of a Low test, and not the maximum of any range of the
\* catalog.
C28_ValuesNotNegative ==
    /\ \A t \in AllExtracted : t.value >= 0
    /\ \A n \in 1..Len(NORMAL_RANGES) : NORMAL_RANGES[n].max_value # 0
    /\ \A c \in Calls : \A i \in 1..Len(report[c].matched) :
           LET t == report[c].matched[i]
           IN  /\ t.value >= 0
               /\ t.min_value = 0 => t.status # "Low"
               /\ t.status = "Low" => t.min_value # 0 /\ t.deviation_pct <= 1000
               /\ t.status = "High" => t.max_value # 0

\* the report of a text with the value 0 for a test whose range starts at 0,
\* which is Normal, and for a test whose range starts above 0, which is Low
\* with a deviation of 100 %
C28_Witness ==
    /\ pc["A"] = "done"
    /\ \E i, j \in 1..Len(report["A"].matched) :
           /\ report["A"].matched[i].value = 0
           /\ report["A"].matched[i].min_value = 0
           /\ report["A"].matched[i].status = "Normal"
           /\ report["A"].matched[j].value = 0
           /\ report["A"].matched[j].status = "Low"
           /\ report["A"].matched[j].deviation_pct = 1000

\* C29: the health score is 100 for every matched list whose penalty is
\* below one half, abnormal tests or not: so for a single test that is Low
\* or High with a deviation_pct of at most 0.1, and for a list of Normal
\* tests and one abnormal test of that deviation.  A score of 100 does not
\* tell that every matched test is Normal.
C29_RoundsTo100 ==
    \A c \in Calls : (pc[c] = "done" /\ report[c].matched # << >>) =>
        LET ms == report[c].matched
            abnormal == { i \in 1..Len(ms) : ms[i].status # "Normal" }
        IN  /\ PenaltyAtMost(ms, 49) => report[c].health_score = 100
            /\ (Cardinality(abnormal) <= 1 /\ \A i \in abnormal : ms[i].deviation_pct <= 1)
                   => report[c].health_score = 100

\* a score of 100 for a list of Normal tests and one test that is Low with a
\* deviation_pct of 0.1
C29_Witness ==
    /\ pc["A"] = "done"
    /\ report["A"].health_score = 100
    /\ Len(report["A"].matched) = MaxMatched
    /\ \E i \in 1..MaxMatched :
           /\ report["A"].matched[i].status = "Low"
           /\ report["A"].matched[i].deviation_pct = 1
           /\ \A j \in 1..MaxMatched : j # i => report["A"].matched[j].status = "Normal"

\* the deviations, in tenths of a percent, a deviation is raised to: the
\* next tenth and a deviation past the cap of 100 percent
RaisedTo(deviation) == {deviation + 1, 1001}

\* C30: the score of a matched list with a Normal test appended is not below
\* the score of the list, and the score of the list with the deviation_pct
\* of one abnormal test raised is not above it. The test raised is the
\* first abnormal one: the lists scored hold every order of their tests.
C30_ScoreMonotone ==
    \A c \in Calls : pc[c] = "done" =>
        LET ms == report[c].matched
            score == report[c].health_score
        IN  /\ _compute_health_score(Append(ms, Stub("Normal", 0))) >= score
            /\ \A i \in 1..Len(ms) : \A d \in RaisedTo(ms[i].deviation_pct) :
                   (/\ ms[i].status # "Normal"
                    /\ \A j \in 1..(i - 1) : ms[j].status = "Normal"
                    /\ d > ms[i].deviation_pct)
                   => _compute_health_score([ms EXCEPT ![i].deviation_pct = d]) <= score

\* a scored list with an abnormal test whose raised deviation lowers the
\* score, and whose score rises when a Normal test is appended
C30_Witness ==
    /\ pc["A"] = "done"
    /\ Len(report["A"].matched) = 2
    /\ report["A"].matched[1].status = "High"
    /\ report["A"].matched[1].deviation_pct = 180
    /\ _compute_health_score(Append(report["A"].matched, Stub("Normal", 0)))
           > report["A"].health_score
    /\ _compute_health_score([report["A"].matched EXCEPT ![1].deviation_pct = 181])
           <= report["A"].health_score
    /\ _compute_health_score([report["A"].matched EXCEPT ![1].deviation_pct = 1000])
           < report["A"].health_score

====
